---------------------------- MODULE Spec2Model ----------------------------
(***************************************************************************)
(* A model of the text-to-sql gateway: the SQL safety validator and row    *)
(* cap (internal/mcp), the database adapters' ExecuteQuery, the query      *)
(* pipeline (internal/service/query.go) and the schema cache.              *)
(*                                                                         *)
(* Text is a sequence of one-character strings, so that trimming, prefix   *)
(* tests, substring search and the blocked-pattern regular expressions are *)
(* computed character by character as the Go code computes them.           *)
(***************************************************************************)
EXTENDS Integers, Sequences, FiniteSets, TLC

(***************************************************************************)
(* Bounds of the model.                                                    *)
(***************************************************************************)
MaxTail == 2          \* fragments appended to the head of a validator input

(***************************************************************************)
(* Characters.                                                             *)
(***************************************************************************)
LowerLetters == <<"a","b","c","d","e","f","g","h","i","j","k","l","m",
                  "n","o","p","q","r","s","t","u","v","w","x","y","z">>
UpperLetters == <<"A","B","C","D","E","F","G","H","I","J","K","L","M",
                  "N","O","P","Q","R","S","T","U","V","W","X","Y","Z">>
Digits == <<"0","1","2","3","4","5","6","7","8","9">>

LowerSet == {LowerLetters[i] : i \in 1..26}
UpperSet == {UpperLetters[i] : i \in 1..26}
DigitSet == {Digits[i] : i \in 1..10}

\* unicode.ToUpper restricted to ASCII: a-z map to A-Z, all else is kept
UpperOf == [c \in LowerSet |-> UpperLetters[CHOOSE i \in 1..26 : LowerLetters[i] = c]]

ToUpperChar(c) == IF c \in LowerSet THEN UpperOf[c] ELSE c

\* unicode.IsSpace / regexp \s on the ASCII characters of the model
IsSpace(c) == c \in {" ", "\t", "\n", "\r"}

\* regexp \w
IsWordChar(c) == c \in LowerSet \cup UpperSet \cup DigitSet \cup {"_"}

(***************************************************************************)
(* package strings                                                         *)
(***************************************************************************)
ToUpper(s) == [i \in 1..Len(s) |-> ToUpperChar(s[i])]

HasPrefix(s, p) == Len(s) >= Len(p) /\ SubSeq(s, 1, Len(p)) = p

HasSuffix(s, p) == Len(s) >= Len(p) /\ SubSeq(s, Len(s) - Len(p) + 1, Len(s)) = p

Contains(s, sub) ==
    \E i \in 1..(Len(s) - Len(sub) + 1) : SubSeq(s, i, i + Len(sub) - 1) = sub

\* strings.Count for a one-character separator
Count(s, c) == Cardinality({i \in 1..Len(s) : s[i] = c})

TrimSpace(s) ==
    LET keep == {i \in 1..Len(s) : ~IsSpace(s[i])}
    IN  IF keep = {} THEN <<>>
        ELSE LET lo == CHOOSE i \in keep : \A j \in keep : i <= j
                 hi == CHOOSE i \in keep : \A j \in keep : j <= i
             IN  SubSeq(s, lo, hi)

TrimSuffix(s, p) == IF HasSuffix(s, p) THEN SubSeq(s, 1, Len(s) - Len(p)) ELSE s

\* fmt's %d for a non-negative integer
RECURSIVE FormatInt(_)
FormatInt(n) == IF n < 10 THEN <<Digits[n + 1]>>
                ELSE FormatInt(n \div 10) \o <<Digits[(n % 10) + 1]>>

(***************************************************************************)
(* Keywords, upper-cased.                                                  *)
(***************************************************************************)
kwSELECT == <<"S", "E", "L", "E", "C", "T">>
kwWITH == <<"W", "I", "T", "H">>
kwLIMIT == <<"L", "I", "M", "I", "T">>
\* the words of blockedPatterns
kwBlocked ==
    [ INSERT |-> <<"I", "N", "S", "E", "R", "T">>,
      UPDATE |-> <<"U", "P", "D", "A", "T", "E">>,
      DELETE |-> <<"D", "E", "L", "E", "T", "E">>,
      DROP |-> <<"D", "R", "O", "P">>,
      TRUNCATE |-> <<"T", "R", "U", "N", "C", "A", "T", "E">>,
      ALTER |-> <<"A", "L", "T", "E", "R">>,
      CREATE |-> <<"C", "R", "E", "A", "T", "E">>,
      GRANT |-> <<"G", "R", "A", "N", "T">>,
      REVOKE |-> <<"R", "E", "V", "O", "K", "E">>,
      EXEC |-> <<"E", "X", "E", "C">>,
      EXECUTE |-> <<"E", "X", "E", "C", "U", "T", "E">>,
      INTO |-> <<"I", "N", "T", "O">>,
      OUTFILE |-> <<"O", "U", "T", "F", "I", "L", "E">>,
      DUMPFILE |-> <<"D", "U", "M", "P", "F", "I", "L", "E">>,
      LOAD_FILE |-> <<"L", "O", "A", "D", "_", "F", "I", "L", "E">>,
      LOAD |-> <<"L", "O", "A", "D">>,
      DATA |-> <<"D", "A", "T", "A">> ]
\* the words of the dialect pattern lists
kwDialect ==
    [ PG_READ_FILE |-> <<"P", "G", "_", "R", "E", "A", "D", "_", "F", "I", "L", "E">>,
      PG_WRITE_FILE |-> <<"P", "G", "_", "W", "R", "I", "T", "E", "_", "F", "I", "L", "E">>,
      PG_LS_DIR |-> <<"P", "G", "_", "L", "S", "_", "D", "I", "R">>,
      LO_IMPORT |-> <<"L", "O", "_", "I", "M", "P", "O", "R", "T">>,
      LO_EXPORT |-> <<"L", "O", "_", "E", "X", "P", "O", "R", "T">>,
      COPY |-> <<"C", "O", "P", "Y">>,
      DBLINK |-> <<"D", "B", "L", "I", "N", "K">>,
      FILE |-> <<"F", "I", "L", "E">>,
      URL |-> <<"U", "R", "L">>,
      REMOTE |-> <<"R", "E", "M", "O", "T", "E">>,
      MYSQL |-> <<"M", "Y", "S", "Q", "L">>,
      POSTGRESQL |-> <<"P", "O", "S", "T", "G", "R", "E", "S", "Q", "L">>,
      ATTACH |-> <<"A", "T", "T", "A", "C", "H">>,
      DETACH |-> <<"D", "E", "T", "A", "C", "H">>,
      LOAD_EXTENSION |-> <<"L", "O", "A", "D", "_", "E", "X", "T", "E", "N", "S", "I", "O", "N">> ]
\* the statement words ExtractSQL accepts besides SELECT and WITH
kwStatement ==
    [ VALUES |-> <<"V", "A", "L", "U", "E", "S">>,
      SHOW |-> <<"S", "H", "O", "W">>,
      DESCRIBE |-> <<"D", "E", "S", "C", "R", "I", "B", "E">>,
      EXPLAIN |-> <<"E", "X", "P", "L", "A", "I", "N">> ]

(***************************************************************************)
(* The blocked patterns of internal/mcp, all under the (?i) flag: a word w1 *)
(* alone, or w1, a whitespace gap and w2.  lb and rb say whether a word    *)
(* boundary is required on the left and on the right; gap is "none",       *)
(* "plus" (one or more whitespace) or "star" (zero or more).               *)
(***************************************************************************)
Word(w)        == [lb |-> TRUE,  w1 |-> w,  gap |-> "none", w2 |-> <<>>, rb |-> TRUE]
Sub(w)         == [lb |-> FALSE, w1 |-> w,  gap |-> "none", w2 |-> <<>>, rb |-> FALSE]
WordPair(a, b) == [lb |-> TRUE,  w1 |-> a,  gap |-> "plus", w2 |-> b,    rb |-> TRUE]
SubPair(a, b)  == [lb |-> FALSE, w1 |-> a,  gap |-> "plus", w2 |-> b,    rb |-> FALSE]
Call(w)        == [lb |-> FALSE, w1 |-> w,  gap |-> "star", w2 |-> <<"(">>, rb |-> FALSE]

blockedPatterns ==
    << Word(kwBlocked.INSERT), Word(kwBlocked.UPDATE), Word(kwBlocked.DELETE), Word(kwBlocked.DROP),
       Word(kwBlocked.TRUNCATE), Word(kwBlocked.ALTER), Word(kwBlocked.CREATE), Word(kwBlocked.GRANT),
       Word(kwBlocked.REVOKE), Word(kwBlocked.EXEC), Word(kwBlocked.EXECUTE),
       WordPair(kwBlocked.INTO, kwBlocked.OUTFILE), WordPair(kwBlocked.INTO, kwBlocked.DUMPFILE),
       Word(kwBlocked.LOAD_FILE), WordPair(kwBlocked.LOAD, kwBlocked.DATA) >>

PostgresBlockedPatterns ==
    << Sub(kwDialect.PG_READ_FILE), Sub(kwDialect.PG_WRITE_FILE), Sub(kwDialect.PG_LS_DIR),
       Sub(kwDialect.LO_IMPORT), Sub(kwDialect.LO_EXPORT), Word(kwDialect.COPY), Sub(kwDialect.DBLINK) >>

ClickhouseBlockedPatterns ==
    << Call(kwDialect.FILE), Call(kwDialect.URL), Call(kwDialect.REMOTE), Call(kwDialect.MYSQL), Call(kwDialect.POSTGRESQL) >>

MysqlBlockedPatterns ==
    << Sub(kwBlocked.LOAD_FILE), SubPair(kwBlocked.INTO, kwBlocked.OUTFILE), SubPair(kwBlocked.INTO, kwBlocked.DUMPFILE) >>

SqliteBlockedPatterns ==
    << Word(kwDialect.ATTACH), Word(kwDialect.DETACH), Sub(kwDialect.LOAD_EXTENSION) >>

\* \b at the gap before position i (1 <= i <= Len(u) + 1)
Boundary(u, i) ==
    LET before == i > 1 /\ IsWordChar(u[i - 1])
        after  == i <= Len(u) /\ IsWordChar(u[i])
    IN  before # after

\* number of whitespace characters of u starting at position i
RECURSIVE SpaceRun(_, _)
SpaceRun(u, i) == IF i <= Len(u) /\ IsSpace(u[i]) THEN 1 + SpaceRun(u, i + 1) ELSE 0

\* the pattern matches the upper-cased text u starting at position i
MatchAt(u, i, p) ==
    LET e1 == i + Len(p.w1)                      \* first position after w1
    IN  /\ e1 - 1 <= Len(u)
        /\ SubSeq(u, i, e1 - 1) = p.w1
        /\ p.lb => Boundary(u, i)
        /\ IF p.gap = "none"
             THEN p.rb => Boundary(u, e1)
             ELSE LET k  == SpaceRun(u, e1)
                      e2 == e1 + k + Len(p.w2)
                  IN  /\ p.gap = "plus" => k >= 1
                      /\ e2 - 1 <= Len(u)
                      /\ SubSeq(u, e1 + k, e2 - 1) = p.w2
                      /\ p.rb => Boundary(u, e2)

\* regexp.MatchString under (?i)
MatchString(p, s) == LET u == ToUpper(s) IN \E i \in 1..Len(u) : MatchAt(u, i, p)

MatchesAny(pats, s) == \E k \in 1..Len(pats) : MatchString(pats[k], s)

(***************************************************************************)
(* Errors are the words of the Go error text; nil is the empty sequence.   *)
(***************************************************************************)
NoError       == <<>>
ErrEmptySQL   == <<"empty", "SQL", "query">>
ErrMultiple   == <<"multiple", "statements", "not", "allowed">>
ErrOnlySelect == <<"only", "SELECT", "statements", "allowed">>
ErrBlocked    == <<"blocked", "SQL", "pattern", "detected">>

(***************************************************************************)
(* mcp.ValidateSQL                                                         *)
(***************************************************************************)
ValidateSQL_NoDialect(sql, additionalPatterns) ==
    LET s          == TrimSpace(sql)
        normalized == ToUpper(TrimSpace(s))
    IN  IF s = <<>> THEN ErrEmptySQL
        ELSE IF Count(s, ";") > 1 THEN ErrMultiple
        ELSE IF ~HasPrefix(normalized, kwSELECT) /\ ~HasPrefix(normalized, kwWITH)
             THEN ErrOnlySelect
        ELSE IF MatchesAny(blockedPatterns, s) THEN ErrBlocked
        ELSE NoError

ValidateSQL(sql, additionalPatterns) ==
    LET s          == TrimSpace(sql)
        normalized == ToUpper(TrimSpace(s))
    IN  IF s = <<>> THEN ErrEmptySQL
        ELSE IF Count(s, ";") > 1 THEN ErrMultiple
        ELSE IF ~HasPrefix(normalized, kwSELECT) /\ ~HasPrefix(normalized, kwWITH)
             THEN ErrOnlySelect
        ELSE IF MatchesAny(blockedPatterns, s) THEN ErrBlocked
        ELSE IF MatchesAny(additionalPatterns, s) THEN ErrBlocked
        ELSE NoError

(***************************************************************************)
(* mcp.EnforceLimit                                                        *)
(***************************************************************************)
EnforceLimit_CaseSensitive(sql, maxRows, limitKeyword) ==
    IF Contains(sql, kwLIMIT) THEN sql
    ELSE TrimSuffix(TrimSpace(sql), <<";">>) \o <<" ">> \o limitKeyword
            \o <<" ">> \o FormatInt(maxRows)

EnforceLimit(sql, maxRows, limitKeyword) ==
    LET normalized == ToUpper(sql)
    IN  IF Contains(normalized, kwLIMIT) THEN sql
        ELSE TrimSuffix(TrimSpace(sql), <<";">>) \o <<" ">> \o limitKeyword
                \o <<" ">> \o FormatInt(maxRows)

(***************************************************************************)
(* The dialect tags and the pattern set each SQL adapter's ValidateQuery   *)
(* hands to ValidateSQL; "none" is the nil pattern list of the unit tests. *)
(***************************************************************************)
SQLDialects == {"postgres", "mysql", "clickhouse", "sqlite"}

DialectPatterns(d) ==
    CASE d = "postgres"   -> PostgresBlockedPatterns
      [] d = "mysql"      -> MysqlBlockedPatterns
      [] d = "clickhouse" -> ClickhouseBlockedPatterns
      [] d = "sqlite"     -> SqliteBlockedPatterns
      [] OTHER            -> <<>>


(***************************************************************************)
(* Decimal numerals, as the database reads the number of a LIMIT clause.   *)
(***************************************************************************)
\* the value of a decimal numeral
RECURSIVE ParseInt(_)
ParseInt(ds) ==
    IF ds = <<>> THEN 0
    ELSE 10 * ParseInt(SubSeq(ds, 1, Len(ds) - 1))
            + (CHOOSE v \in 0..9 : Digits[v + 1] = ds[Len(ds)])

IsNumeral(ds) ==
    /\ ds # <<>>
    /\ \A i \in 1..Len(ds) : ds[i] \in DigitSet
    /\ Len(ds) > 1 => ds[1] # "0"

(***************************************************************************)
(* The database behind the driver.  A table of tableRows rows answers a    *)
(* SELECT with all its rows, or with the first n of them when the text     *)
(* sent carries a clause LIMIT n.                                          *)
(***************************************************************************)
Min(a, b) == IF a <= b THEN a ELSE b

\* the n of a clause " LIMIT n" that ends the text or is followed by a space
LimitClauses(text) ==
    LET u == ToUpper(text)
    IN  { ParseInt(SubSeq(u, i + 7, j)) :
            <<i, j>> \in { <<i, j>> \in (1..Len(u)) \X (1..Len(u)) :
                /\ i + 7 <= j
                /\ SubSeq(u, i, i + 6) = <<" ", "L", "I", "M", "I", "T", " ">>
                /\ IsNumeral(SubSeq(u, i + 7, j))
                /\ j = Len(u) \/ u[j + 1] = " " } }

HasLimitClause(text) == LimitClauses(text) # {}

\* rows the database yields for the text sent
DriverRows(text, tableRows) ==
    IF HasLimitClause(text)
    THEN Min(tableRows, CHOOSE n \in LimitClauses(text) : TRUE)
    ELSE tableRows

\* the rows 1..k of the table, each row named by its number
RowsUpTo(k) == [i \in 1..k |-> i]

(***************************************************************************)
(* mcp.QueryResult, and the (nil, err) return of a failed call.            *)
(***************************************************************************)
QueryResult(columns, rows, truncated) ==
    [err |-> NoError, columns |-> columns, rows |-> rows,
     row_count |-> Len(rows), truncated |-> truncated]

QueryError(e) ==
    [err |-> e, columns |-> <<>>, rows |-> <<>>, row_count |-> 0, truncated |-> FALSE]

ErrQueryFailed == <<"query", "failed:", "driver", "error">>

\* what one ExecuteQuery call did: its return value and the texts it sent
\* to the driver, in order
Outcome(result, sent) == [result |-> result, sent |-> sent]

(***************************************************************************)
(* ExecuteQuery of the PostgreSQL, MySQL and SQLite adapters.  The three   *)
(* bodies differ only in the pattern set of ValidateQuery and in the       *)
(* driver type.                                                            *)
(***************************************************************************)
\* the loop "for rows.Next() { append; if len(resultRows) > MaxRows break }"
RECURSIVE CollectRows(_, _, _)
CollectRows(got, avail, maxRows) ==
    IF got < avail
    THEN IF got + 1 > maxRows THEN got + 1
         ELSE CollectRows(got + 1, avail, maxRows)
    ELSE got

CursorExecuteQuery_NoValidate(patterns, text, maxRows, tableRows, driverFails) ==
    LET limitedSQL == EnforceLimit(text, maxRows, kwLIMIT)
    IN  IF driverFails THEN Outcome(QueryError(ErrQueryFailed), <<limitedSQL>>)
        ELSE LET got       == CollectRows(0, DriverRows(limitedSQL, tableRows), maxRows)
                 truncated == got > maxRows
                 kept      == IF truncated THEN maxRows ELSE got
             IN  Outcome(QueryResult(<<"*">>, RowsUpTo(kept), truncated), <<limitedSQL>>)

CursorExecuteQuery(patterns, text, maxRows, tableRows, driverFails) ==
    LET verr == ValidateSQL(text, patterns)
    IN  IF verr # NoError THEN Outcome(QueryError(verr), <<>>)
        ELSE LET limitedSQL == EnforceLimit(text, maxRows, kwLIMIT)
             IN  IF driverFails THEN Outcome(QueryError(ErrQueryFailed), <<limitedSQL>>)
                 ELSE LET got       == CollectRows(0, DriverRows(limitedSQL, tableRows), maxRows)
                          truncated == got > maxRows
                          kept      == IF truncated THEN maxRows ELSE got
                      IN  Outcome(QueryResult(<<"*">>, RowsUpTo(kept), truncated),
                                  <<limitedSQL>>)

PostgresExecuteQuery(text, maxRows, tableRows, driverFails) ==
    CursorExecuteQuery(PostgresBlockedPatterns, text, maxRows, tableRows, driverFails)

MysqlExecuteQuery(text, maxRows, tableRows, driverFails) ==
    CursorExecuteQuery(MysqlBlockedPatterns, text, maxRows, tableRows, driverFails)

SqliteExecuteQuery(text, maxRows, tableRows, driverFails) ==
    CursorExecuteQuery(SqliteBlockedPatterns, text, maxRows, tableRows, driverFails)

(***************************************************************************)
(* ExecuteQuery of the ClickHouse adapter over HTTP: HTTPClient.Query      *)
(* appends the output format and returns every row of the answer; the      *)
(* adapter keeps the first MaxRows of them.                                *)
(***************************************************************************)
kwFORMAT == <<"F", "O", "R", "M", "A", "T">>

HTTPClientQueryText(query) ==
    IF ~Contains(ToUpper(query), kwFORMAT)
    THEN query \o <<" ", "F", "O", "R", "M", "A", "T", " ",
                    "J", "S", "O", "N", "E", "a", "c", "h", "R", "o", "w">>
    ELSE query

ClickhouseExecuteQuery(text, maxRows, tableRows, driverFails) ==
    LET verr == ValidateSQL(text, ClickhouseBlockedPatterns)
    IN  IF verr # NoError THEN Outcome(QueryError(verr), <<>>)
        ELSE LET limitedSQL == EnforceLimit(text, maxRows, kwLIMIT)
                 sentText   == HTTPClientQueryText(limitedSQL)
             IN  IF driverFails THEN Outcome(QueryError(ErrQueryFailed), <<sentText>>)
                 ELSE LET results == DriverRows(sentText, tableRows)
                          kept    == IF results > 0 THEN Min(results, maxRows) ELSE 0
                      IN  Outcome(QueryResult(IF results > 0 THEN <<"*">> ELSE <<>>,
                                              RowsUpTo(kept), results > maxRows),
                                  <<sentText>>)

(***************************************************************************)
(* The MongoDB adapter.  The query text is an extended-JSON command        *)
(* document; it is modelled by what bson.UnmarshalExtJSON makes of it:     *)
(* whether it parses, the keys of the document in order, and the keys of   *)
(* each stage of its "pipeline" array.                                     *)
(***************************************************************************)
MongoText(parses, keys, pipeline) == [parses |-> parses, keys |-> keys, pipeline |-> pipeline]

allowedCommands ==
    {"find", "aggregate", "count", "distinct", "listCollections",
     "buildInfo", "collStats", "dbStats", "ping"}

ErrMongoInvalid       == <<"invalid", "mongodb", "query:", "expected", "JSON", "object">>
ErrMongoEmpty         == <<"empty", "command">>
ErrMongoNotAllowed(c) == <<"command", c, "is", "not", "allowed", "(read-only", "mode", "enabled)">>
ErrMongoStage(k)      == <<"aggregation", "stage", k, "is", "not", "allowed">>
ErrMongoExecution     == <<"execution", "error:", "driver", "error">>

MongoValidateQuery(text) ==
    IF ~text.parses THEN ErrMongoInvalid
    ELSE IF Len(text.keys) = 0 THEN ErrMongoEmpty
    ELSE LET commandName == text.keys[1]
             badStages == UNION { { <<i, j>> : j \in { k \in 1..Len(text.pipeline[i]) :
                                      text.pipeline[i][k] \in {"$out", "$merge"} } } :
                                  i \in 1..Len(text.pipeline) }
         IN  IF commandName \notin allowedCommands THEN ErrMongoNotAllowed(commandName)
             ELSE IF /\ commandName = "aggregate"
                     /\ \E k \in 1..Len(text.keys) : text.keys[k] = "pipeline"
                     /\ badStages # {}
                  THEN LET first == CHOOSE b \in badStages :
                                      \A c \in badStages :
                                         b[1] < c[1] \/ (b[1] = c[1] /\ b[2] <= c[2])
                       IN  ErrMongoStage(text.pipeline[first[1]][first[2]])
             ELSE NoError

\* RunCommand answers find and aggregate with a cursor whose first batch
\* holds batch documents, and any other command with one document
MongoExecuteQuery(text, maxRows, batch, driverFails) ==
    LET verr == MongoValidateQuery(text)
    IN  IF verr # NoError THEN Outcome(QueryError(verr), <<>>)
        ELSE IF driverFails THEN Outcome(QueryError(ErrMongoExecution), <<text>>)
        ELSE IF text.keys[1] \in {"find", "aggregate"}
             THEN Outcome(QueryResult(<<"json_document">>, RowsUpTo(batch), FALSE), <<text>>)
             ELSE Outcome(QueryResult(<<"result">>, RowsUpTo(1), FALSE), <<text>>)

\* ValidateQuery of the adapter with dialect tag d
ValidateQuery(d, text) ==
    IF d = "mongodb" THEN MongoValidateQuery(text)
    ELSE ValidateSQL(text, DialectPatterns(d))

(***************************************************************************)
(* llm.ExtractSQL and its helpers (internal/llm/prompt.go).  Positions are *)
(* 1-based; 0 stands for Go's -1 (not found).                              *)
(***************************************************************************)
MaxThinkIters == 4    \* iterations of the removeThinkingTags loop that are followed

isWhitespace(c) == c = " " \/ c = "\t" \/ c = "\n" \/ c = "\r"

trimWhitespace(s) ==
    LET keep == {i \in 1..Len(s) : ~isWhitespace(s[i])}
    IN  IF keep = {} THEN <<>>
        ELSE LET start == CHOOSE i \in keep : \A j \in keep : i <= j
                 end   == CHOOSE i \in keep : \A j \in keep : j <= i
             IN  SubSeq(s, start, end)

trimSQL_KeepTerminator(s) == trimWhitespace(s)

trimSQL(s) ==
    LET t == trimWhitespace(s)
    IN  IF Len(t) > 0 /\ t[Len(t)] = ";"
        THEN trimWhitespace(SubSeq(t, 1, Len(t) - 1))
        ELSE trimWhitespace(t)

toUpper(s) ==
    [i \in 1..Len(s) |-> IF s[i] \in LowerSet THEN UpperOf[s[i]] ELSE s[i]]

indexOfFrom(s, substr, from) ==
    LET hits == {i \in from..(Len(s) - Len(substr) + 1) :
                    SubSeq(s, i, i + Len(substr) - 1) = substr}
    IN  IF hits = {} THEN 0 ELSE CHOOSE i \in hits : \A j \in hits : i <= j

indexOf(s, substr) == indexOfFrom(s, substr, 1)

startsWithAny(s, prefixes) ==
    \E p \in prefixes : Len(s) >= Len(p) /\ SubSeq(s, 1, Len(p)) = p

tagThinkOpen  == <<"<", "t", "h", "i", "n", "k", ">">>
tagThinkClose == <<"<", "/", "t", "h", "i", "n", "k", ">">>
\* the backquote character (the lexer of TLA+ does not take it inside a string)
backquote     == "BACKQUOTE"
fence         == <<backquote, backquote, backquote>>
fenceSQL      == fence \o <<"s", "q", "l">>

\* the value that stands for a removeThinkingTags loop still running after
\* MaxThinkIters iterations
StillLooping == <<"<loop>">>

\* removeThinkingTags, line 119: one iteration of the loop when both tags
\* were found
removeThinkBlock(content, startIdx, endIdx) ==
    SubSeq(content, 1, startIdx - 1)
        \o SubSeq(content, endIdx + Len(tagThinkClose), Len(content))

\* the loop of removeThinkingTags, followed for at most fuel iterations
RECURSIVE removeThinkingLoop(_, _)
removeThinkingLoop(content, fuel) ==
    LET startIdx == indexOf(content, tagThinkOpen)
        endIdx   == indexOf(content, tagThinkClose)
    IN  IF startIdx = 0 THEN content
        ELSE IF endIdx = 0 THEN SubSeq(content, 1, startIdx - 1)
        ELSE IF fuel = 0 THEN StillLooping
        ELSE removeThinkingLoop(removeThinkBlock(content, startIdx, endIdx), fuel - 1)

removeThinkingTags(content) ==
    LET stripped == removeThinkingLoop(content, MaxThinkIters)
    IN  IF stripped = StillLooping THEN StillLooping ELSE trimWhitespace(stripped)

extractFromCodeBlock(content, startMarker, endMarker) ==
    LET startIdx == indexOf(content, startMarker)
    IN  IF startIdx = 0 THEN <<>>
        ELSE LET afterMarker  == startIdx + Len(startMarker)
                 contentStart == IF afterMarker <= Len(content) /\ content[afterMarker] = "\n"
                                 THEN afterMarker + 1 ELSE afterMarker
                 endIdx       == indexOfFrom(content, endMarker, contentStart)
             IN  IF endIdx = 0 THEN <<>>
                 ELSE trimSQL(SubSeq(content, contentStart, endIdx - 1))

extractSelectStatement_KeepsRest(content) ==
    LET selectIdx == indexOf(toUpper(content), kwSELECT)
    IN  IF selectIdx = 0 THEN <<>>
        ELSE trimSQL(SubSeq(content, selectIdx, Len(content)))

extractSelectStatement(content) ==
    LET upperContent == toUpper(content)
        selectIdx    == indexOf(upperContent, kwSELECT)
    IN  IF selectIdx = 0 THEN <<>>
        ELSE LET rest   == SubSeq(content, selectIdx, Len(content))
                 endIdx == indexOf(rest, <<"\n", "\n">>)
             IN  IF endIdx # 0 THEN trimSQL(SubSeq(rest, 1, endIdx - 1))
                 ELSE trimSQL(rest)

\* ExtractSQL, lines 72-93: what follows the removal of the thinking sections
extractFromStripped(content) ==
    LET fromSQLBlock == extractFromCodeBlock(content, fenceSQL, fence)
        fromBlock    == extractFromCodeBlock(content, fence, fence)
        fromSelect   == extractSelectStatement(content)
        trimmed      == trimSQL(content)
    IN  IF fromSQLBlock # <<>> THEN fromSQLBlock
        ELSE IF fromBlock # <<>> THEN fromBlock
        ELSE IF fromSelect # <<>> THEN fromSelect
        ELSE IF startsWithAny(toUpper(trimmed),
                    {kwSELECT, kwWITH, kwStatement.VALUES, kwStatement.SHOW, kwStatement.DESCRIBE, kwStatement.EXPLAIN})
             THEN trimmed
        ELSE <<>>

ExtractSQL(reply) ==
    LET content == removeThinkingTags(reply)
    IN  IF content = StillLooping THEN StillLooping
        ELSE extractFromStripped(content)
(***************************************************************************)
(* Inputs of the validator: a head (the first keyword, or none) followed   *)
(* by at most MaxTail fragments.                                           *)
(***************************************************************************)
HeadFrags ==
    { <<>>, <<"x">>, kwSELECT,
      <<"S", "E", "L", "E", "C", "T", " ", "x">>,
      <<"s", "e", "l", "e", "c", "t", " ", "x">>,
      <<" ", "W", "i", "t", "h", " ", "x">>,
      kwBlocked.INSERT, <<"u", "p", "d", "a", "t", "e">>, kwBlocked.DELETE, <<"D", "r", "o", "p">>,
      kwBlocked.TRUNCATE, kwBlocked.ALTER, kwBlocked.CREATE, kwBlocked.GRANT, kwBlocked.REVOKE, kwBlocked.EXEC, kwBlocked.EXECUTE }

TailFrags ==
    { <<" ">>, <<";">>, <<"x">>, <<"_">>, <<"(">>, <<"\n">>,
      <<" ", "S", "E", "L", "E", "C", "T", " ", "x">>,
      <<" ", "d", "r", "o", "p">>,
      <<" ", "L", "I", "M", "I", "T", " ", "5">>,
      <<"l", "i", "m", "i", "t">>,
      <<" ", "i", "n", "t", "o">>,
      <<" ", "O", "U", "T", "F", "I", "L", "E">>,
      <<" ", "f", "i", "l", "e">>,
      <<" ", "c", "o", "p", "y">>,
      <<" ", "a", "t", "t", "a", "c", "h">> }

RECURSIVE Tails(_)
Tails(n) == IF n = 0 THEN {<<>>}
            ELSE LET shorter == Tails(n - 1)
                 IN  shorter \cup {t \o f : t \in shorter, f \in TailFrags}

Inputs == {h \o t : h \in HeadFrags, t \in Tails(MaxTail)}

Caps == {1, 50, 100}


(***************************************************************************)
(* Inputs of the adapters: the query texts                                 *)
(*   "SELECT * FROM t", "SELECT * FROM t;", "SELECT * FROM t LIMIT 2",     *)
(*   "DROP TABLE users", "SELECT 1; SELECT 2", "select limit_col from t",  *)
(*   "SELECT * FROM file(x)" and a blank text,                             *)
(* the MongoDB command documents, the table sizes and the row caps.        *)
(***************************************************************************)
SQLTexts ==
    { <<"S", "E", "L", "E", "C", "T", " ", "*", " ", "F", "R", "O", "M", " ", "t">>,
      <<"S", "E", "L", "E", "C", "T", " ", "*", " ", "F", "R", "O", "M", " ", "t", ";">>,
      <<"S", "E", "L", "E", "C", "T", " ", "*", " ", "F", "R", "O", "M", " ", "t", " ", "L", "I", "M", "I", "T", " ", "2">>,
      <<"D", "R", "O", "P", " ", "T", "A", "B", "L", "E", " ", "u", "s", "e", "r", "s">>,
      <<"S", "E", "L", "E", "C", "T", " ", "1", ";", " ", "S", "E", "L", "E", "C", "T", " ", "2">>,
      <<"s", "e", "l", "e", "c", "t", " ", "l", "i", "m", "i", "t", "_", "c", "o", "l", " ", "f", "r", "o", "m", " ", "t">>,
      <<"S", "E", "L", "E", "C", "T", " ", "*", " ", "F", "R", "O", "M", " ", "f", "i", "l", "e", "(", "x", ")">>,
      <<" ", " ">> }

MongoTexts ==
    { MongoText(FALSE, <<>>, <<>>),                                  \* not JSON
      MongoText(TRUE, <<>>, <<>>),                                   \* {}
      MongoText(TRUE, <<"find", "filter">>, <<>>),
      MongoText(TRUE, <<"filter", "find">>, <<>>),
      MongoText(TRUE, <<"insert", "documents">>, <<>>),
      MongoText(TRUE, <<"ping">>, <<>>),
      MongoText(TRUE, <<"aggregate", "pipeline">>, << <<"$match">>, <<"$group">> >>),
      MongoText(TRUE, <<"aggregate", "pipeline">>, << <<"$match">>, <<"$out">> >>) }

TableSizes == {0, 1, 3, 500}
(***************************************************************************)
(* The service layer: users, workspaces, connection rows, requests and     *)
(* the pure parts of QueryService.                                         *)
(***************************************************************************)
None == "none"      \* a nil pointer, an empty optional field, uuid.Nil

Users      == {"alice", "mallory"}
Workspaces == {"w1", "w2"}
\* the rows of workspace_members: mallory is a member of no workspace
Members    == {<<"w1", "alice">>}
IsMember(workspaceID, userID) == <<workspaceID, userID>> \in Members

Requests    == {"r1", "r2"}      \* the ExecuteQuery calls
SchemaCalls == {"g1", "g2"}      \* the GetSchema / RefreshSchema calls
ConnIds     == {"c1", "c9"}      \* c1 is a stored connection, c9 is not
PipelineDialects == {"postgres", "clickhouse", "mongodb"}

titleNewChat     == <<"N", "e", "w", " ", "C", "h", "a", "t">>
questionShort    == <<"s", "h", "o", "w", " ", "u", "s", "e", "r", "s">>
questionLong     == <<"h", "o", "w", " ", "m", "a", "n", "y", " ", "u", "s", "e", "r", "s", " ",
                      "s", "i", "g", "n", "e", "d", " ", "u", "p", " ", "t", "o", "d", "a", "y", "?">>
ellipsis         == <<".", ".", ".">>
textEncountered  == <<"I", " ", "e", "n", "c", "o", "u", "n", "t", "e", "r", "e", "d", " ",
                      "a", "n", " ", "e", "r", "r", "o", "r", ":", " ">>
textHereIsResult == <<"H", "e", "r", "e", " ", "i", "s", " ", "t", "h", "e", " ", "r", "e", "s",
                      "u", "l", "t", " ", "o", "f", " ", "y", "o", "u", "r", " ", "q", "u", "e",
                      "r", "y", ":">>
Questions == {questionShort, questionLong}
\* a title the model makes of a question
titleSummary == <<"L", "i", "s", "t", " ", "u", "s", "e", "r", "s">>

\* the replies of the language model
replyFencedDrop   == fenceSQL \o <<"\n", "D", "R", "O", "P", " ", "T", "A", "B", "L", "E", " ",
                                   "u", "s", "e", "r", "s", ";", "\n">> \o fence
replyFencedSelect == fenceSQL \o <<"\n", "S", "E", "L", "E", "C", "T", " ", "*", " ", "F", "R",
                                   "O", "M", " ", "t", "\n">> \o fence
replyGreeting     == <<"H", "e", "l", "l", "o", "!">>
replyPlain        == <<"S", "E", "L", "E", "C", "T", " ", "*", " ", "F", "R", "O", "M", " ", "t", ";">>
textPing          == <<"{", "\"", "p", "i", "n", "g", "\"", ":", " ", "1", "}">>
replyFencedPing   == fence \o <<"\n">> \o textPing \o <<"\n">> \o fence
Replies == {replyFencedDrop, replyFencedSelect, replyGreeting, replyPlain, replyFencedPing}

\* errors are the words of err.Error(); fmt.Errorf("...: %w", err) prefixes
ErrAccessDenied       == <<"access", "denied">>
ErrConnectionNotFound == <<"connection", "not", "found">>
ErrDatabase           == <<"database", "error">>
Wrap(prefix, err)     == prefix \o err
Mentions(err, word)   == \E i \in 1..Len(err) : err[i] = word

\* bson.UnmarshalExtJSON of a query text, as the mongo adapter reads it
ParseExtJSON(text) ==
    IF text = textPing THEN MongoText(TRUE, <<"ping">>, <<>>)
    ELSE MongoText(FALSE, <<>>, <<>>)

\* a connection row, and the nil *domain.Connection
Connection(workspaceID, dbType, maxRows, timeoutSeconds) ==
    [workspace |-> workspaceID, database_type |-> dbType,
     max_rows |-> maxRows, timeout_seconds |-> timeoutSeconds]
NoConnection == Connection(None, None, 0, 0)

\* req.Options: given is FALSE for a nil pointer, a field left out is 0
QueryOptions(given, maxRows, timeoutSeconds) ==
    [given |-> given, max_rows |-> maxRows, timeout_seconds |-> timeoutSeconds]
NoOptions == QueryOptions(FALSE, 0, 0)

ChatSession(workspaceID, userID, title, createdAt, updatedAt) ==
    [workspace |-> workspaceID, user |-> userID, title |-> title,
     created_at |-> createdAt, updated_at |-> updatedAt]
NoSession == ChatSession(None, None, <<>>, 0, 0)

Message(r, workspaceID, sessionID, role, content, sqlText, createdAt) ==
    [by |-> r, workspace |-> workspaceID, session |-> sessionID, role |-> role,
     content |-> content, sql |-> sqlText, created_at |-> createdAt]

UserContent(question) == [kind |-> "question", text |-> question, err |-> NoError]

SchemaInfo(dbType, cachedAt, by) == [database_type |-> dbType, cached_at |-> cachedAt, by |-> by]
NoSchema == SchemaInfo(None, 0, None)

\* ConnectionService.GetFullConnection: fault is the repository call that fails
\* the statuses the query handlers answer with
StatusOK                  == 200
StatusForbidden           == 403
StatusInternalServerError == 500

\* QueryHandler.Execute and QueryHandler.Generate: the status for what
\* ExecuteQuery returned; the error text is compared as a whole
QueryHandlerStatus(err) ==
    IF err = NoError THEN StatusOK
    ELSE IF err = ErrAccessDenied THEN StatusForbidden
    ELSE StatusInternalServerError

GetFullConnection(rows, userID, workspaceID, connectionID, fault) ==
    IF fault = "membership"
    THEN [err |-> Wrap(<<"failed", "to", "check", "membership:">>, ErrDatabase), conn |-> NoConnection]
    ELSE IF ~IsMember(workspaceID, userID)
    THEN [err |-> ErrAccessDenied, conn |-> NoConnection]
    ELSE IF fault = "lookup"
    THEN [err |-> Wrap(<<"failed", "to", "get", "connection:">>, ErrDatabase), conn |-> NoConnection]
    ELSE IF connectionID \notin DOMAIN rows \/ rows[connectionID].workspace # workspaceID
    THEN [err |-> ErrConnectionNotFound, conn |-> NoConnection]
    ELSE IF fault = "decrypt"
    THEN [err |-> <<"failed", "to", "decrypt", "credentials:", "cipher", "error">>, conn |-> NoConnection]
    ELSE [err |-> NoError, conn |-> rows[connectionID]]

\* the row cap and the timeout ExecuteQuery hands to the adapter
EffectiveMaxRows(conn, options) ==
    IF options.given /\ options.max_rows > 0 /\ options.max_rows < conn.max_rows
    THEN options.max_rows ELSE conn.max_rows

EffectiveTimeout(conn, options) ==
    IF options.given /\ options.timeout_seconds > 0
    THEN options.timeout_seconds ELSE conn.timeout_seconds

\* the content of the assistant message
AssistantContent(explanation, responseError) ==
    IF explanation # <<>> THEN [kind |-> "explanation", text |-> explanation, err |-> NoError]
    ELSE IF responseError # NoError
    THEN [kind |-> "error", text |-> textEncountered, err |-> responseError]
    ELSE [kind |-> "default", text |-> textHereIsResult, err |-> NoError]

\* the provisional title written when the title is still "New Chat"
ProvisionalTitle(question) ==
    IF Len(question) > 30 THEN SubSeq(question, 1, 30) \o ellipsis ELSE question

\* Adapter.ExecuteQuery of the adapter of a database type
AdapterExecuteQuery(dbType, text, maxRows, rowsInTable, driverFails) ==
    CASE dbType = "postgres"   -> PostgresExecuteQuery(text, maxRows, rowsInTable, driverFails)
      [] dbType = "mysql"      -> MysqlExecuteQuery(text, maxRows, rowsInTable, driverFails)
      [] dbType = "sqlite"     -> SqliteExecuteQuery(text, maxRows, rowsInTable, driverFails)
      [] dbType = "clickhouse" -> ClickhouseExecuteQuery(text, maxRows, rowsInTable, driverFails)
      [] dbType = "mongodb"    ->
             MongoExecuteQuery(ParseExtJSON(text), maxRows, rowsInTable, driverFails)

(***************************************************************************)
(* State.                                                                  *)
(***************************************************************************)
VARIABLES
    sql,        \* the text handed to ValidateSQL / EnforceLimit
    dialect,    \* the pattern set of the call
    cap,        \* maxRows of the EnforceLimit call
    verdict,    \* the error ValidateSQL returned
    limited,    \* the text EnforceLimit returned
    vpc,        \* "input", "validated" or "limited"
    tableRows,  \* rows of the table the target database holds
    aDialect,   \* dialect tag of the adapter that was called
    aText,      \* the query text handed to Adapter.ExecuteQuery
    aMaxRows,   \* opts.MaxRows of the call
    aOut,       \* what the call returned and what it sent to the driver
    apc,        \* "ready" or "done"
    connections,  \* the stored connection rows, by connection id
    sessions,     \* the chat_sessions rows, by session id
    messages,     \* the chat_messages rows, in insertion order
    adapters,     \* every adapter the router's factories made
    pool,         \* Router.pool: connection id -> index into adapters
    schemaCache,  \* the schema cache: connection id -> snapshot
    titleTasks,   \* the generateSessionTitle goroutines that were started
    clock,        \* the wall clock
    rq,           \* the ExecuteQuery calls: locals and position
    sc,           \* the GetSchema / RefreshSchema calls: locals and position
    rc,           \* the calls of mcp.Router: locals and position
    lr,           \* the llm.Router: registries, and the calls made to it
    xc,           \* the ExtractSQL call: its input, locals and position
    ac            \* the adapter that is being closed: its handle and its driver

valVars == <<sql, dialect, cap, verdict, limited, vpc>>
adVars  == <<tableRows, aDialect, aText, aMaxRows, aOut, apc>>
svcVars == <<connections, sessions, messages, adapters, pool, schemaCache,
             titleTasks, clock, rq, sc>>
rtVars == <<rc, lr>>
unitVars == <<xc, ac>>
vars == <<valVars, adVars, svcVars, rtVars, unitVars>>

\* the parts of the state a specification does not use
ValidatorIdle ==
    /\ sql = <<>>
    /\ dialect = "none"
    /\ cap = 0
    /\ verdict = NoError
    /\ limited = <<>>
    /\ vpc = "idle"

AdapterCallIdle ==
    /\ aDialect = "none"
    /\ aText = <<>>
    /\ aMaxRows = 0
    /\ aOut = Outcome(QueryError(NoError), <<>>)
    /\ apc = "idle"


AdapterIdle ==
    /\ tableRows = 0
    /\ AdapterCallIdle

\* the response under construction, and the nil response
Response(sessionID, sqlText, explanation) ==
    [session_id |-> sessionID, sql |-> sqlText, explanation |-> explanation,
     error |-> NoError, has_result |-> FALSE, result |-> QueryError(NoError)]
NoResponse == Response(None, <<>>, <<>>)

\* the locals of an ExecuteQuery call that has not started
IdleRequest ==
    [pc |-> "idle", user |-> None, workspace |-> None,
     session_id |-> None, connection_id |-> None, question |-> <<>>,
     execute |-> FALSE, options |-> NoOptions,
     startTime |-> 0, sessionID |-> None, isNewSession |-> FALSE,
     history |-> <<>>, conn |-> NoConnection, adapter |-> 0, schema |-> NoSchema,
     sess |-> NoSession, reply |-> <<>>, explanation |-> <<>>, queryOpts |-> [MaxRows |-> 0, Timeout |-> 0],
     sent |-> <<>>, response |-> NoResponse, err |-> NoError,
     \* what the call has done so far, in order (kept for the claims only)
     events |-> <<>>,
     \* the calls that had returned when this one arrived (kept for the claims only)
     after |-> {}]

\* the locals of a GetSchema / RefreshSchema call that has not started
IdleSchemaCall ==
    [pc |-> "idle", op |-> None, user |-> None, workspace |-> None,
     connection_id |-> None, conn |-> NoConnection, adapter |-> 0,
     schema |-> NoSchema, err |-> NoError,
     \* the time at which the call arrived, and whether it has queried the
     \* target database for its schema (kept for the claims only)
     began |-> 0, issued |-> FALSE]

ServiceIdle ==
    /\ connections = <<>>
    /\ sessions = <<>>
    /\ messages = <<>>
    /\ adapters = <<>>
    /\ pool = <<>>
    /\ schemaCache = <<>>
    /\ titleTasks = {}
    /\ clock = 0
    /\ rq = [r \in Requests |-> IdleRequest]
    /\ sc = [c \in SchemaCalls |-> IdleSchemaCall]

\* the locals of a Router call that has not started
IdleRouterCall ==
    [pc |-> "idle", op |-> None, key |-> None, dbType |-> None, seen |-> 0,
     adapter |-> 0, err |-> NoError]

RouterIdle == rc = <<>>
LLMRouterIdle == lr = <<>>
UnitsIdle == xc = <<>> /\ ac = <<>>
(***************************************************************************)
(* The validator and the row cap applied to every input.                   *)
(***************************************************************************)
InitValidator ==
    /\ sql \in Inputs
    /\ dialect = "none"
    /\ cap = 0
    /\ verdict = NoError
    /\ limited = <<>>
    /\ vpc = "input"
    /\ AdapterIdle
    /\ ServiceIdle
    /\ RouterIdle
    /\ LLMRouterIdle
    /\ UnitsIdle

CallValidateSQL ==
    /\ vpc = "input"
    /\ \E d \in SQLDialects \cup {"none"} :
          /\ dialect' = d
          /\ verdict' = ValidateSQL(sql, DialectPatterns(d))
    /\ vpc' = "validated"
    /\ UNCHANGED <<sql, cap, limited, adVars, svcVars, rtVars, unitVars>>

CallEnforceLimit ==
    /\ vpc = "input"
    /\ \E c \in Caps :
          /\ cap' = c
          /\ limited' = EnforceLimit(sql, c, kwLIMIT)
    /\ vpc' = "limited"
    /\ UNCHANGED <<sql, dialect, verdict, adVars, svcVars, rtVars, unitVars>>

NextValidator == CallValidateSQL \/ CallEnforceLimit

SpecValidator == InitValidator /\ [][NextValidator]_vars

(***************************************************************************)
(* One ExecuteQuery call on each adapter, against a table of any size.     *)
(***************************************************************************)
InitAdapter ==
    /\ ValidatorIdle
    /\ tableRows \in TableSizes
    /\ aDialect = "none"
    /\ aText = <<>>
    /\ aMaxRows = 0
    /\ aOut = Outcome(QueryError(NoError), <<>>)
    /\ apc = "ready"
    /\ ServiceIdle
    /\ RouterIdle
    /\ LLMRouterIdle
    /\ UnitsIdle

Called(d, text, maxRows, out) ==
    /\ aDialect' = d
    /\ aText' = text
    /\ aMaxRows' = maxRows
    /\ aOut' = out
    /\ apc' = "done"
    /\ UNCHANGED <<tableRows, valVars, svcVars, rtVars, unitVars>>

PostgresCall ==
    /\ apc = "ready"
    /\ \E text \in SQLTexts, n \in Caps, fails \in BOOLEAN :
          Called("postgres", text, n, PostgresExecuteQuery(text, n, tableRows, fails))

MysqlCall ==
    /\ apc = "ready"
    /\ \E text \in SQLTexts, n \in Caps, fails \in BOOLEAN :
          Called("mysql", text, n, MysqlExecuteQuery(text, n, tableRows, fails))

SqliteCall ==
    /\ apc = "ready"
    /\ \E text \in SQLTexts, n \in Caps, fails \in BOOLEAN :
          Called("sqlite", text, n, SqliteExecuteQuery(text, n, tableRows, fails))

ClickhouseCall ==
    /\ apc = "ready"
    /\ \E text \in SQLTexts, n \in Caps, fails \in BOOLEAN :
          Called("clickhouse", text, n, ClickhouseExecuteQuery(text, n, tableRows, fails))

\* the first batch of a cursor holds any number of the collection's documents
MongoCall ==
    /\ apc = "ready"
    /\ \E text \in MongoTexts, n \in Caps, fails \in BOOLEAN, batch \in TableSizes :
          /\ batch <= tableRows
          /\ Called("mongodb", text, n, MongoExecuteQuery(text, n, batch, fails))

NextAdapter == PostgresCall \/ MysqlCall \/ SqliteCall \/ ClickhouseCall \/ MongoCall

SpecAdapter == InitAdapter /\ [][NextAdapter]_vars

(***************************************************************************)
(* QueryService.ExecuteQuery, one action per blocking call.                *)
(***************************************************************************)
MaxClock == 3          \* the clock stops advancing here
HistoryLimit == 10     \* the number of messages ExecuteQuery asks ListBySession for
PipelineTableRows == 3 \* rows of the table the pipeline's database holds

\* f with key k bound to v
Put(f, k, v) == (k :> v) @@ f
\* f without key k
Drop(f, k) == [x \in DOMAIN f \ {k} |-> f[x]]

\* the session a request without session_id creates is named after the request
NewSessionID(r) == r

\* the rows with the given indices, newest first and at most k of them: the
\* answers ORDER BY created_at DESC LIMIT k can give, rows of one created_at
\* coming in any order
RECURSIVE NewestFirst(_, _, _)
NewestFirst(rows, among, k) ==
    IF k = 0 \/ among = {} THEN {<<>>}
    ELSE LET newest == {i \in among :
                          \A j \in among : rows[i].created_at >= rows[j].created_at}
         IN  UNION {{<<rows[i]>> \o rest : rest \in NewestFirst(rows, among \ {i}, k - 1)} :
                    i \in newest}

\* s with its elements in the opposite order
Reverse(s) == [i \in 1..Len(s) |-> s[Len(s) + 1 - i]]

\* ListBySession, were the rows returned as the query gives them
ListBySession_NewestFirst(rows, sessionID, limit) ==
    NewestFirst(rows, {i \in 1..Len(rows) : rows[i].session = sessionID}, limit)

\* MessageRepository.ListBySession: the answers the call can give.  The
\* query's rows are reversed, so the oldest of them comes first.
ListBySession(rows, sessionID, limit) ==
    {Reverse(q) : q \in NewestFirst(rows, {i \in 1..Len(rows) : rows[i].session = sessionID},
                                    limit)}

RequestOptions ==
    {NoOptions, QueryOptions(TRUE, 50, 0), QueryOptions(TRUE, 200, 10),
     QueryOptions(TRUE, 0, 300)}

\* the database types main registers a factory for
RegisteredAdapters == {"postgres", "clickhouse", "mysql", "mongodb", "sqlite"}

\* Router.GetAdapter: the pool and the adapters after the call, and what it
\* returns.  healthy is the answer of HealthCheck, connects that of Connect.
RouterGetAdapter_PoolsUnconnected(by, connectionID, dbType, healthy, connects) ==
    LET pooled    == connectionID \in DOMAIN pool
        reuse     == pooled /\ healthy
        closedOld == IF pooled /\ ~healthy
                     THEN [adapters EXCEPT ![pool[connectionID]].open = FALSE]
                     ELSE adapters
        without   == IF pooled /\ ~healthy THEN Drop(pool, connectionID) ELSE pool
        fresh     == [by |-> by, database_type |-> dbType, connection |-> connectionID,
                      open |-> TRUE]
    IN  IF reuse
        THEN [adapters |-> adapters, pool |-> pool,
              adapter |-> pool[connectionID], err |-> NoError]
        ELSE IF dbType \notin RegisteredAdapters
        THEN [adapters |-> closedOld, pool |-> without, adapter |-> 0,
              err |-> <<"unsupported", "database", "type:", dbType>>]
        ELSE IF ~connects
        THEN [adapters |-> Append(closedOld, [fresh EXCEPT !.open = FALSE]),
              pool |-> Put(without, connectionID, Len(closedOld) + 1),
              adapter |-> 0,
              err |-> <<"failed", "to", "connect:", "driver", "error">>]
        ELSE [adapters |-> Append(closedOld, fresh),
              pool |-> Put(without, connectionID, Len(closedOld) + 1),
              adapter |-> Len(closedOld) + 1, err |-> NoError]

RouterGetAdapter(by, connectionID, dbType, healthy, connects) ==
    LET pooled    == connectionID \in DOMAIN pool
        reuse     == pooled /\ healthy
        closedOld == IF pooled /\ ~healthy
                     THEN [adapters EXCEPT ![pool[connectionID]].open = FALSE]
                     ELSE adapters
        without   == IF pooled /\ ~healthy THEN Drop(pool, connectionID) ELSE pool
        fresh     == [by |-> by, database_type |-> dbType, connection |-> connectionID,
                      open |-> TRUE]
    IN  IF reuse
        THEN [adapters |-> adapters, pool |-> pool,
              adapter |-> pool[connectionID], err |-> NoError]
        ELSE IF dbType \notin RegisteredAdapters
        THEN [adapters |-> closedOld, pool |-> without, adapter |-> 0,
              err |-> <<"unsupported", "database", "type:", dbType>>]
        ELSE IF ~connects
        THEN [adapters |-> closedOld, pool |-> without, adapter |-> 0,
              err |-> <<"failed", "to", "connect:", "driver", "error">>]
        ELSE [adapters |-> Append(closedOld, fresh),
              pool |-> Put(without, connectionID, Len(closedOld) + 1),
              adapter |-> Len(closedOld) + 1, err |-> NoError]

InitPipeline ==
    /\ ValidatorIdle
    /\ AdapterCallIdle
    /\ tableRows = PipelineTableRows
    /\ \E d \in PipelineDialects : connections = Put(<<>>, "c1", Connection("w1", d, 100, 30))
    \* s0 is an earlier chat of alice in w1, s9 a chat of workspace w2
    /\ sessions = Put(Put(<<>>, "s0", ChatSession("w1", "alice", questionShort, 0, 0)),
                      "s9", ChatSession("w2", "bob", questionShort, 0, 0))
    /\ messages = <<>>
    /\ adapters = <<>>
    /\ pool = <<>>
    /\ schemaCache = <<>>
    /\ titleTasks = {}
    /\ clock = 1
    \* one call is made
    /\ rq = [r \in Requests |-> [IdleRequest EXCEPT !.pc = IF r = "r1" THEN "ready" ELSE "idle"]]
    /\ sc = [c \in SchemaCalls |-> IdleSchemaCall]
    /\ RouterIdle
    /\ LLMRouterIdle
    /\ UnitsIdle

\* the call has returned
Returned(r) == rq[r].pc = "done"

\* the log of a call with one more event
Logged(locals, event) == [locals EXCEPT !.events = Append(@, event)]

\* the request returns (nil, err)
Fail(r, locals, err) ==
    rq' = [rq EXCEPT ![r] = [locals EXCEPT !.pc = "done", !.err = err]]

\* lines 50-76: the call arrives and the session is adopted or created
Begin(r) ==
    /\ rq[r].pc = "ready"
    /\ \E u \in Users, w \in Workspaces, sid \in {None} \cup DOMAIN sessions, cid \in ConnIds,
          q \in Questions, ex \in BOOLEAN, o \in RequestOptions, created \in BOOLEAN :
          LET isNew  == sid = None
              locals == [rq[r] EXCEPT !.user = u, !.workspace = w, !.session_id = sid,
                                      !.connection_id = cid, !.question = q,
                                      !.execute = ex, !.options = o,
                                      !.startTime = clock, !.isNewSession = isNew,
                                      !.after = {x \in Requests : rq[x].pc = "done"},
                                      !.sessionID = IF isNew THEN NewSessionID(r) ELSE sid]
          IN  IF isNew /\ ~created
              THEN /\ Fail(r, locals, Wrap(<<"failed", "to", "create", "session:">>, ErrDatabase))
                   /\ UNCHANGED sessions
              ELSE /\ rq' = [rq EXCEPT ![r] = [locals EXCEPT !.pc = "userMsg"]]
                   /\ sessions' = IF isNew
                                  THEN Put(sessions, NewSessionID(r),
                                           ChatSession(w, u, titleNewChat, clock, clock))
                                  ELSE sessions
    /\ UNCHANGED <<connections, messages, adapters, pool, schemaCache, titleTasks, clock, sc>>
    /\ UNCHANGED <<valVars, adVars, rtVars, unitVars>>

\* lines 78-91: the user's question is stored; a failure is only logged
SaveUserMessage(r) ==
    /\ rq[r].pc = "userMsg"
    /\ \E stored \in BOOLEAN :
          /\ messages' = IF stored
                      THEN Append(messages, Message(r, rq[r].workspace, rq[r].sessionID, "user",
                                                    UserContent(rq[r].question), <<>>,
                                                    rq[r].startTime))
                      ELSE messages
          /\ rq' = [rq EXCEPT ![r] = Logged([@ EXCEPT !.pc = "history"],
                                            IF stored THEN "user_write_ok"
                                            ELSE "user_write_failed")]
    /\ UNCHANGED <<connections, sessions, adapters, pool, schemaCache, titleTasks, clock, sc>>
    /\ UNCHANGED <<valVars, adVars, rtVars, unitVars>>

\* lines 93-98: the last 10 messages of the session; a failure gives none
FetchHistory(r) ==
    /\ rq[r].pc = "history"
    /\ \/ \E h \in ListBySession(messages, rq[r].sessionID, HistoryLimit) :
             rq' = [rq EXCEPT ![r] = Logged([@ EXCEPT !.pc = "conn", !.history = h],
                                            "history_ok")]
       \/ rq' = [rq EXCEPT ![r] = Logged([@ EXCEPT !.pc = "conn", !.history = <<>>],
                                         "history_failed")]
    /\ UNCHANGED <<connections, sessions, messages, adapters, pool, schemaCache,
                   titleTasks, clock, sc>>
    /\ UNCHANGED <<valVars, adVars, rtVars, unitVars>>

\* lines 100-104: the connection is read, after the membership check
GetConnection(r) ==
    /\ rq[r].pc = "conn"
    /\ \E fault \in {"none", "membership", "lookup", "decrypt"} :
          LET got == GetFullConnection(connections, rq[r].user, rq[r].workspace,
                                       rq[r].connection_id, fault)
          IN  IF got.err # NoError
              THEN Fail(r, rq[r], Wrap(<<"failed", "to", "get", "connection:">>, got.err))
              ELSE rq' = [rq EXCEPT ![r].pc = "adapter", ![r].conn = got.conn]
    /\ UNCHANGED <<connections, sessions, messages, adapters, pool, schemaCache,
                   titleTasks, clock, sc>>
    /\ UNCHANGED <<valVars, adVars, rtVars, unitVars>>

\* lines 106-122: the adapter is taken from the pool or made
GetAdapter(r) ==
    /\ rq[r].pc = "adapter"
    /\ \E healthy \in BOOLEAN, connects \in BOOLEAN :
          LET got == RouterGetAdapter(r, rq[r].connection_id, rq[r].conn.database_type,
                                      healthy, connects)
          IN  /\ adapters' = got.adapters
              /\ pool' = got.pool
              /\ IF got.err # NoError
                 THEN Fail(r, rq[r], Wrap(<<"failed", "to", "get", "database", "adapter:">>,
                                          got.err))
                 ELSE rq' = [rq EXCEPT ![r].pc = "schema", ![r].adapter = got.adapter]
    /\ UNCHANGED <<connections, sessions, messages, schemaCache, titleTasks, clock, sc>>
    /\ UNCHANGED <<valVars, adVars, rtVars, unitVars>>

\* getSchema, lines 290-297: the cache is asked first; redisUp is FALSE when
\* the cache cannot be reached
CacheLookup(connectionID, redisUp) ==
    IF redisUp /\ connectionID \in DOMAIN schemaCache
    THEN [hit |-> TRUE, schema |-> schemaCache[connectionID]]
    ELSE [hit |-> FALSE, schema |-> NoSchema]

\* getSchema, lines 299-349: the database is introspected and the snapshot
\* is stored in the cache
IntrospectResult(connectionID, dbType, by, outcome, redisUp) ==
    IF outcome = "listFails"
    THEN [err |-> Wrap(<<"failed", "to", "list", "tables:">>, ErrDatabase),
          schema |-> NoSchema, cache |-> schemaCache]
    ELSE IF outcome = "ddlFails"
    THEN [err |-> Wrap(<<"failed", "to", "get", "DDL:">>, ErrDatabase),
          schema |-> NoSchema, cache |-> schemaCache]
    ELSE LET snapshot == SchemaInfo(dbType, clock, by)
         IN  [err |-> NoError, schema |-> snapshot,
              cache |-> IF redisUp THEN Put(schemaCache, connectionID, snapshot)
                        ELSE schemaCache]

IntrospectOutcomes == {"ok", "listFails", "ddlFails"}

\* lines 124-128, first half of getSchema
SchemaLookup(r) ==
    /\ rq[r].pc = "schema"
    /\ \E redisUp \in BOOLEAN :
          LET got == CacheLookup(rq[r].connection_id, redisUp)
          IN  rq' = IF got.hit
                    THEN [rq EXCEPT ![r].pc = "provider", ![r].schema = got.schema]
                    ELSE [rq EXCEPT ![r].pc = "introspect"]
    /\ UNCHANGED <<connections, sessions, messages, adapters, pool, schemaCache,
                   titleTasks, clock, sc>>
    /\ UNCHANGED <<valVars, adVars, rtVars, unitVars>>

\* lines 124-128, second half of getSchema
Introspect(r) ==
    /\ rq[r].pc = "introspect"
    /\ \E outcome \in IntrospectOutcomes, redisUp \in BOOLEAN :
          LET got == IntrospectResult(rq[r].connection_id, rq[r].conn.database_type,
                                      r, outcome, redisUp)
          IN  /\ schemaCache' = got.cache
              /\ IF got.err # NoError
                 THEN Fail(r, rq[r], Wrap(<<"failed", "to", "get", "schema:">>, got.err))
                 ELSE rq' = [rq EXCEPT ![r].pc = "provider", ![r].schema = got.schema]
    /\ UNCHANGED <<connections, sessions, messages, adapters, pool, titleTasks, clock, sc>>
    /\ UNCHANGED <<valVars, adVars, rtVars, unitVars>>

\* lines 130-148: the provider is resolved, or is not configured
GetProvider(r) ==
    /\ rq[r].pc = "provider"
    /\ \E found \in BOOLEAN :
          IF found THEN rq' = [rq EXCEPT ![r].pc = "llm"]
          ELSE Fail(r, rq[r], <<"failed", "to", "get", "LLM", "provider:",
                                "provider", "not", "found">>)
    /\ UNCHANGED <<connections, sessions, messages, adapters, pool, schemaCache,
                   titleTasks, clock, sc>>
    /\ UNCHANGED <<valVars, adVars, rtVars, unitVars>>

\* what ExtractSQL makes of each reply
ExtractedSQL == [reply \in Replies |-> ExtractSQL(reply)]

\* GenerateSQL, were a failure of the provider to fall through to the
\* assistant message
GenerateSQL_FailureFallsThrough(r) ==
    /\ rq[r].pc = "llm"
    /\ clock < MaxClock
    /\ clock' = clock + 1
    /\ \E answered \in BOOLEAN, reply \in Replies, keepsReply \in BOOLEAN :
          IF ~answered
          THEN rq' = [rq EXCEPT ![r] = Logged([@ EXCEPT !.pc = "aiMsg"], "generate_failed")]
          ELSE LET sqlText     == ExtractedSQL[reply]
                   explanation == IF keepsReply THEN reply ELSE <<>>
               IN  /\ sqlText # StillLooping
                   /\ rq' = [rq EXCEPT
                        ![r].pc = IF rq[r].execute /\ sqlText # <<>> THEN "execute" ELSE "aiMsg",
                        ![r].reply = reply,
                        ![r].explanation = explanation,
                        ![r].response = Response(rq[r].sessionID, sqlText, explanation),
                        ![r].events = Append(@, "generate_ok")]
    /\ UNCHANGED <<connections, sessions, messages, adapters, pool, schemaCache,
                   titleTasks, sc>>
    /\ UNCHANGED <<valVars, adVars, rtVars, unitVars>>

\* lines 150-200: the model answers, which takes time; the provider extracts the SQL and
\* keeps the raw reply as the explanation (ollama, gemini, deepseek) or
\* leaves the explanation empty (openai, anthropic)
GenerateSQL(r) ==
    /\ rq[r].pc = "llm"
    /\ clock < MaxClock
    /\ clock' = clock + 1
    /\ \E answered \in BOOLEAN, reply \in Replies, keepsReply \in BOOLEAN :
          IF ~answered
          THEN Fail(r, Logged(rq[r], "generate_failed"),
                    Wrap(<<"failed", "to", "generate", "SQL:">>, <<"provider", "error">>))
          ELSE LET sqlText     == ExtractedSQL[reply]
                   explanation == IF keepsReply THEN reply ELSE <<>>
               IN  /\ sqlText # StillLooping
                   /\ rq' = [rq EXCEPT
                        ![r].pc = IF rq[r].execute /\ sqlText # <<>> THEN "execute" ELSE "aiMsg",
                        ![r].reply = reply,
                        ![r].explanation = explanation,
                        ![r].response = Response(rq[r].sessionID, sqlText, explanation),
                        ![r].events = Append(@, "generate_ok")]
    /\ UNCHANGED <<connections, sessions, messages, adapters, pool, schemaCache,
                   titleTasks, sc>>
    /\ UNCHANGED <<valVars, adVars, rtVars, unitVars>>

\* Execute, were an error of the adapter to abort the call
Execute_AbortsOnError(r) ==
    /\ rq[r].pc = "execute"
    /\ \E driverFails \in BOOLEAN :
          LET maxRows == EffectiveMaxRows(rq[r].conn, rq[r].options)
              timeout == EffectiveTimeout(rq[r].conn, rq[r].options)
              out     == AdapterExecuteQuery(adapters[rq[r].adapter].database_type,
                                             rq[r].response.sql, maxRows, tableRows,
                                             driverFails)
          IN  IF out.result.err # NoError
              THEN Fail(r, Logged(rq[r], "execute_failed"), out.result.err)
              ELSE rq' = [rq EXCEPT
                            ![r].pc = "aiMsg",
                            ![r].queryOpts = [MaxRows |-> maxRows, Timeout |-> timeout],
                            ![r].sent = out.sent,
                            ![r].response.has_result = TRUE,
                            ![r].response.result = out.result,
                            ![r].events = Append(@, "execute_ok")]
    /\ UNCHANGED <<connections, sessions, messages, adapters, pool, schemaCache,
                   titleTasks, clock, sc>>
    /\ UNCHANGED <<valVars, adVars, rtVars, unitVars>>

\* lines 202-232: the statement is run on the adapter with the effective
\* row cap and timeout; an error of the adapter goes into the response
Execute(r) ==
    /\ rq[r].pc = "execute"
    /\ \E driverFails \in BOOLEAN :
          LET maxRows == EffectiveMaxRows(rq[r].conn, rq[r].options)
              timeout == EffectiveTimeout(rq[r].conn, rq[r].options)
              out     == AdapterExecuteQuery(adapters[rq[r].adapter].database_type,
                                             rq[r].response.sql, maxRows, tableRows,
                                             driverFails)
          IN  rq' = [rq EXCEPT
                       ![r].pc = "aiMsg",
                       ![r].queryOpts = [MaxRows |-> maxRows, Timeout |-> timeout],
                       ![r].sent = out.sent,
                       ![r].response.error = out.result.err,
                       ![r].response.has_result = (out.result.err = NoError),
                       ![r].response.result = out.result,
                       ![r].events = Append(@, IF out.result.err = NoError THEN "execute_ok"
                                               ELSE "execute_failed")]
    /\ UNCHANGED <<connections, sessions, messages, adapters, pool, schemaCache,
                   titleTasks, clock, sc>>
    /\ UNCHANGED <<valVars, adVars, rtVars, unitVars>>

\* lines 234-260: the assistant message is stored; a failure is only logged
SaveAssistantMessage(r) ==
    /\ rq[r].pc = "aiMsg"
    /\ \E stored \in BOOLEAN :
          /\ messages' = IF stored
                      THEN Append(messages,
                                  Message(r, rq[r].workspace, rq[r].sessionID, "assistant",
                                          AssistantContent(rq[r].explanation,
                                                           rq[r].response.error),
                                          rq[r].response.sql, clock))
                      ELSE messages
          /\ rq' = [rq EXCEPT ![r] = Logged([@ EXCEPT !.pc = "sessGet"],
                                            IF stored THEN "assistant_write_ok"
                                            ELSE "assistant_write_failed")]
    /\ UNCHANGED <<connections, sessions, adapters, pool, schemaCache, titleTasks, clock, sc>>
    /\ UNCHANGED <<valVars, adVars, rtVars, unitVars>>

\* line 268: the session row is read
GetSession(r) ==
    /\ rq[r].pc = "sessGet"
    /\ \E found \in BOOLEAN :
          IF found /\ rq[r].sessionID \in DOMAIN sessions
          THEN rq' = [rq EXCEPT ![r].pc = "sessUpdate", ![r].sess = sessions[rq[r].sessionID]]
          ELSE rq' = [rq EXCEPT ![r].pc = "return"]
    /\ UNCHANGED <<connections, sessions, messages, adapters, pool, schemaCache,
                   titleTasks, clock, sc>>
    /\ UNCHANGED <<valVars, adVars, rtVars, unitVars>>

\* lines 269-278: updated_at and the provisional title are written back; the
\* error of the update is dropped
UpdateSession(r) ==
    /\ rq[r].pc = "sessUpdate"
    /\ \E written \in BOOLEAN :
          LET title == IF rq[r].sess.title = titleNewChat
                       THEN ProvisionalTitle(rq[r].question) ELSE rq[r].sess.title
          IN  /\ sessions' = IF written /\ rq[r].sessionID \in DOMAIN sessions
                              THEN [sessions EXCEPT ![rq[r].sessionID].title = title,
                                                    ![rq[r].sessionID].updated_at = clock]
                              ELSE sessions
              /\ rq' = [rq EXCEPT ![r] = Logged([@ EXCEPT !.pc = "return"],
                                                IF written THEN "session_update_ok"
                                                ELSE "session_update_failed")]
    /\ UNCHANGED <<connections, messages, adapters, pool, schemaCache, titleTasks, clock, sc>>
    /\ UNCHANGED <<valVars, adVars, rtVars, unitVars>>

\* context.Background(): no parent that can cancel it and no deadline
\* (timeout 0)
Background == [root |-> "background", timeout |-> 0]

\* the deadline of the title task, in seconds
TitleTimeoutSeconds == 10

\* context.WithTimeout(ctx, d)
WithTimeout(ctx, d) == [ctx EXCEPT !.timeout = d]

\* a generateSessionTitle goroutine: where it is, the session row it read,
\* the title it was given, the context it holds and the blocking calls it
\* has made, each with the context it was made under
TitleTask(by, sessionID, question, pc, sess, title) ==
    [by |-> by, session |-> sessionID, question |-> question, pc |-> pc, sess |-> sess,
     title |-> title, ctx |-> Background, calls |-> {}]

\* the task makes a blocking call under the context it holds
Blocking(t, call) == [t EXCEPT !.calls = @ \cup {[call |-> call, ctx |-> t.ctx]}]

\* a blocking call that is never answered ends with the context's deadline;
\* under a context without one the goroutine stays in the call
Unanswered(t) == [t EXCEPT !.pc = IF t.ctx.timeout > 0 THEN "done" ELSE "blocked"]

\* lines 281-286: the title goroutine is started for a new session and the
\* response is returned
Return(r) ==
    /\ rq[r].pc = "return"
    /\ titleTasks' = IF rq[r].isNewSession
                     THEN titleTasks \cup {TitleTask(r, rq[r].sessionID, rq[r].question,
                                                     "started", NoSession, <<>>)}
                     ELSE titleTasks
    /\ rq' = [rq EXCEPT ![r].pc = "done"]
    /\ UNCHANGED <<connections, sessions, messages, adapters, pool, schemaCache, clock, sc>>
    /\ UNCHANGED <<valVars, adVars, rtVars, unitVars>>

\* what a repository call can do: answer with the row, answer with an
\* error, or never answer
RepoAnswers == {"row", "error", "never"}

\* generateSessionTitle, lines 451-455: the session row is read under the
\* context the goroutine was given; on a failure the goroutine ends
TitleGetSession(r) ==
    \E t \in titleTasks :
       /\ t.by = r
       /\ t.pc = "started"
       /\ \E answer \in RepoAnswers :
             titleTasks' = (titleTasks \ {t}) \cup
                 {LET u == Blocking(t, "session_read")
                  IN  IF answer = "never" THEN Unanswered(u)
                      ELSE IF answer = "row" /\ t.session \in DOMAIN sessions
                      THEN [u EXCEPT !.pc = "user", !.sess = sessions[t.session]]
                      ELSE [u EXCEPT !.pc = "done"]}
       /\ UNCHANGED <<connections, sessions, messages, adapters, pool, schemaCache, clock, rq, sc>>
       /\ UNCHANGED <<valVars, adVars, rtVars, unitVars>>

\* lines 461-480: the user row is read under the same context (its error is
\* ignored), the provider is resolved, and only then the context with the
\* deadline is made
TitleGetUser(r) ==
    \E t \in titleTasks :
       /\ t.by = r
       /\ t.pc = "user"
       /\ \E answer \in RepoAnswers, resolved \in BOOLEAN :
             titleTasks' = (titleTasks \ {t}) \cup
                 {LET u == Blocking(t, "user_read")
                  IN  IF answer = "never" THEN Unanswered(u)
                      ELSE IF resolved
                      THEN [u EXCEPT !.pc = "generate",
                                     !.ctx = WithTimeout(t.ctx, TitleTimeoutSeconds)]
                      ELSE [u EXCEPT !.pc = "done"]}
       /\ UNCHANGED <<connections, sessions, messages, adapters, pool, schemaCache, clock, rq, sc>>
       /\ UNCHANGED <<valVars, adVars, rtVars, unitVars>>

\* what Provider.GenerateTitle can return: an error (the deadline of its
\* context among them), the model's summary of
\* the question, or the placeholder (the openai, anthropic and deepseek
\* stubs; ollama on an empty reply; gemini on a reply without text)
TitleOutcomes == {"failed", "summary", "placeholder"}

\* lines 477-489: the provider is asked for a title
TitleGenerate(r) ==
    \E t \in titleTasks :
       /\ t.by = r
       /\ t.pc = "generate"
       /\ \E outcome \in TitleOutcomes :
             titleTasks' = (titleTasks \ {t}) \cup
                 {LET u == Blocking(t, "generate_title")
                  IN  IF outcome = "failed" THEN [u EXCEPT !.pc = "done"]
                      ELSE [u EXCEPT !.pc = "update",
                                     !.title = IF outcome = "summary" THEN titleSummary
                                               ELSE titleNewChat]}
       /\ UNCHANGED <<connections, sessions, messages, adapters, pool, schemaCache, clock, rq, sc>>
       /\ UNCHANGED <<valVars, adVars, rtVars, unitVars>>

\* lines 491-499: the title and updated_at are written to the session row;
\* a write that does not come back by the deadline counts as not written
TitleUpdate(r) ==
    \E t \in titleTasks :
       /\ t.by = r
       /\ t.pc = "update"
       /\ \E written \in BOOLEAN :
             sessions' = IF written /\ t.session \in DOMAIN sessions
                         THEN [sessions EXCEPT ![t.session].title = t.title,
                                               ![t.session].updated_at = clock]
                         ELSE sessions
       /\ titleTasks' = (titleTasks \ {t}) \cup
                           {[Blocking(t, "session_update") EXCEPT !.pc = "done"]}
       /\ UNCHANGED <<connections, messages, adapters, pool, schemaCache, clock, rq, sc>>
       /\ UNCHANGED <<valVars, adVars, rtVars, unitVars>>

\* time passes
Tick ==
    /\ clock < MaxClock
    /\ clock' = clock + 1
    /\ UNCHANGED <<connections, sessions, messages, adapters, pool, schemaCache,
                   titleTasks, rq, sc>>
    /\ UNCHANGED <<valVars, adVars, rtVars, unitVars>>

\* one call; within it time passes while the model answers
NextPipeline ==
    \E r \in Requests :
        \/ Begin(r) \/ SaveUserMessage(r) \/ FetchHistory(r) \/ GetConnection(r)
        \/ GetAdapter(r) \/ SchemaLookup(r) \/ Introspect(r) \/ GetProvider(r)
        \/ GenerateSQL(r) \/ Execute(r) \/ SaveAssistantMessage(r)
        \/ GetSession(r) \/ UpdateSession(r) \/ Return(r)

SpecPipeline == InitPipeline /\ [][NextPipeline]_vars



(***************************************************************************)
(* mcp.Router under concurrent callers.  Each critical section of r.mu is  *)
(* one action; HealthCheck outside the lock is an action of its own.       *)
(***************************************************************************)
RouterCalls == {"a1", "a2", "a3"}
RouterConnIds == {"c1", "c2"}
\* the database types the callers name: one with a factory, one without
RouterTypes == {"postgres", "oracle"}
\* the random connection id TestConnection draws
TempConnID(p) == IF p = "a1" THEN "t1" ELSE IF p = "a2" THEN "t2" ELSE "t3"

InitRouter ==
    /\ ValidatorIdle
    /\ AdapterCallIdle
    /\ tableRows = 0
    /\ connections = [k \in RouterConnIds |-> Connection("w1", "postgres", 100, 30)]
    /\ sessions = <<>>
    /\ messages = <<>>
    \* an earlier call may have pooled an adapter for c1
    /\ \E pooled \in BOOLEAN :
          IF pooled
          THEN /\ adapters = <<[by |-> None, database_type |-> "postgres",
                                connection |-> "c1", open |-> TRUE]>>
               /\ pool = Put(<<>>, "c1", 1)
          ELSE adapters = <<>> /\ pool = <<>>
    /\ schemaCache = <<>>
    /\ titleTasks = {}
    /\ clock = 1
    /\ rq = [r \in Requests |-> IdleRequest]
    /\ sc = [c \in SchemaCalls |-> IdleSchemaCall]
    /\ rc = [p \in RouterCalls |-> [IdleRouterCall EXCEPT !.pc = "ready"]]
    /\ LLMRouterIdle
    /\ UnitsIdle

\* GetAdapter, lines 47-52 and 61-63: the pool is read under the read lock
RouterLookup(p) ==
    /\ rc[p].pc = "ready"
    /\ \E k \in RouterConnIds, dbType \in RouterTypes :
          rc' = [rc EXCEPT ![p] =
                    IF k \in DOMAIN pool
                    THEN [@ EXCEPT !.pc = "health", !.op = "GetAdapter", !.key = k,
                                   !.dbType = dbType, !.seen = pool[k]]
                    ELSE [@ EXCEPT !.pc = "create", !.op = "GetAdapter", !.key = k,
                                   !.dbType = dbType]]
    /\ UNCHANGED <<valVars, adVars, svcVars, lr, unitVars>>

\* GetAdapter, lines 53-55: HealthCheck of the adapter that was read, with
\* no lock held.  A closed adapter is never healthy.
RouterHealthCheck(p) ==
    /\ rc[p].pc = "health"
    /\ \E healthy \in BOOLEAN :
          /\ healthy => adapters[rc[p].seen].open
          /\ rc' = [rc EXCEPT ![p] =
                       IF healthy
                       THEN [@ EXCEPT !.pc = "done", !.adapter = rc[p].seen]
                       ELSE [@ EXCEPT !.pc = "evict"]]
    /\ UNCHANGED <<valVars, adVars, svcVars, lr, unitVars>>

\* GetAdapter, lines 57-60: under the write lock the adapter that was read
\* is closed and the pool's entry of the key, whatever it now is, deleted
RouterEvict(p) ==
    /\ rc[p].pc = "evict"
    /\ adapters' = [adapters EXCEPT ![rc[p].seen].open = FALSE]
    /\ pool' = Drop(pool, rc[p].key)
    /\ rc' = [rc EXCEPT ![p].pc = "create"]
    /\ UNCHANGED <<valVars, adVars, connections, sessions, messages, schemaCache,
                   titleTasks, clock, rq, sc, lr, unitVars>>

\* GetAdapter, lines 66-89: under the write lock the pool is checked again,
\* then the adapter is made, connected and pooled
RouterCreate(p) ==
    /\ rc[p].pc = "create"
    /\ \E healthy, connects \in BOOLEAN :
          /\ (rc[p].key \in DOMAIN pool /\ healthy) => adapters[pool[rc[p].key]].open
          /\ LET out == RouterGetAdapter(p, rc[p].key, rc[p].dbType, healthy, connects)
             IN  /\ adapters' = out.adapters
                 /\ pool' = out.pool
                 /\ rc' = [rc EXCEPT ![p].pc = "done", ![p].adapter = out.adapter,
                                     ![p].err = out.err]
    /\ UNCHANGED <<valVars, adVars, connections, sessions, messages, schemaCache,
                   titleTasks, clock, rq, sc, lr, unitVars>>

\* Router.CloseConnection
CloseConnection(p) ==
    /\ rc[p].pc = "ready"
    /\ \E k \in RouterConnIds :
          /\ IF k \in DOMAIN pool
             THEN /\ adapters' = [adapters EXCEPT ![pool[k]].open = FALSE]
                  /\ pool' = Drop(pool, k)
             ELSE UNCHANGED <<adapters, pool>>
          /\ rc' = [rc EXCEPT ![p].pc = "done", ![p].op = "CloseConnection", ![p].key = k]
    /\ UNCHANGED <<valVars, adVars, connections, sessions, messages, schemaCache,
                   titleTasks, clock, rq, sc, lr, unitVars>>

\* ConnectionService.Delete
ConnectionDelete(p) ==
    /\ rc[p].pc = "ready"
    /\ \E userID \in Users, workspaceID \in Workspaces, k \in RouterConnIds :
          LET err == IF ~IsMember(workspaceID, userID) THEN ErrAccessDenied
                     ELSE IF k \notin DOMAIN connections
                             \/ connections[k].workspace # workspaceID
                     THEN ErrConnectionNotFound
                     ELSE NoError
          IN  /\ connections' = IF err = NoError THEN Drop(connections, k) ELSE connections
              /\ rc' = [rc EXCEPT ![p].pc = "done", ![p].op = "Delete", ![p].key = k,
                                  ![p].err = err]
    /\ UNCHANGED <<valVars, adVars, sessions, messages, adapters, pool, schemaCache,
                   titleTasks, clock, rq, sc, lr, unitVars>>

\* ConnectionService.TestConnection: GetAdapter under a random id (never in
\* the pool), then Close of the adapter it returned
TestConnection(p) ==
    /\ rc[p].pc = "ready"
    /\ \E dbType \in RouterTypes, connects \in BOOLEAN :
          LET out == RouterGetAdapter(p, TempConnID(p), dbType, FALSE, connects)
          IN  /\ adapters' = IF out.err = NoError
                             THEN [out.adapters EXCEPT ![out.adapter].open = FALSE]
                             ELSE out.adapters
              /\ pool' = out.pool
              /\ rc' = [rc EXCEPT ![p].pc = "done", ![p].op = "TestConnection",
                                  ![p].key = TempConnID(p), ![p].dbType = dbType,
                                  ![p].adapter = out.adapter,
                                  ![p].err = IF out.err = NoError THEN NoError
                                             ELSE Wrap(<<"connection", "failed:">>, out.err)]
    /\ UNCHANGED <<valVars, adVars, connections, sessions, messages, schemaCache,
                   titleTasks, clock, rq, sc, lr, unitVars>>

NextRouter ==
    \E p \in RouterCalls :
        \/ RouterLookup(p)
        \/ RouterHealthCheck(p)
        \/ RouterEvict(p)
        \/ RouterCreate(p)
        \/ CloseConnection(p)
        \/ ConnectionDelete(p)
        \/ TestConnection(p)

SpecRouter == InitRouter /\ [][NextRouter]_vars

(***************************************************************************)
(* Two ExecuteQuery calls of one user on one session that already holds    *)
(* messages, the second made when the first has returned.  Time passes     *)
(* while the model answers.                                                *)
(***************************************************************************)
OldMessages == 9       \* the messages the session holds at the start

\* the i-th old message: questions and answers alternate, one per instant
OldMessage(i) ==
    Message(None, "w1", "s0", IF i % 2 = 1 THEN "user" ELSE "assistant",
            IF i % 2 = 1 THEN UserContent(questionShort) ELSE AssistantContent(<<>>, NoError),
            <<>>, i - OldMessages)

InitChat ==
    /\ ValidatorIdle
    /\ AdapterCallIdle
    /\ tableRows = PipelineTableRows
    /\ connections = Put(<<>>, "c1", Connection("w1", "postgres", 100, 30))
    /\ sessions = Put(<<>>, "s0", ChatSession("w1", "alice", questionShort, 0 - OldMessages, 0))
    /\ messages = [i \in 1..OldMessages |-> OldMessage(i)]
    /\ adapters = <<>>
    /\ pool = <<>>
    /\ schemaCache = <<>>
    /\ titleTasks = {}
    /\ clock = 1
    /\ rq = [r \in Requests |-> [IdleRequest EXCEPT !.pc = "ready"]]
    /\ sc = [c \in SchemaCalls |-> IdleSchemaCall]
    /\ RouterIdle
    /\ LLMRouterIdle
    /\ UnitsIdle

\* the calls are alice's, in her workspace, on session s0 and connection c1,
\* and the model answers with a SELECT
ChatInputs ==
    \A r \in Requests :
        rq[r].pc \notin {"idle", "ready"} =>
            /\ rq[r].user = "alice"
            /\ rq[r].workspace = "w1"
            /\ rq[r].session_id = "s0"
            /\ rq[r].connection_id = "c1"
            /\ rq[r].question = IF r = "r1" THEN questionShort ELSE questionLong
            /\ rq[r].options = NoOptions
            /\ rq[r].reply \in {<<>>, replyFencedSelect}
            /\ rq[r].explanation = <<>>

ChatBegin(r) ==
    /\ r = "r2" => Returned("r1")
    /\ Begin(r)
    /\ ChatInputs'
ChatGenerateSQL(r) == GenerateSQL(r) /\ ChatInputs'

NextChat ==
    \E r \in Requests :
          \/ ChatBegin(r) \/ SaveUserMessage(r) \/ FetchHistory(r) \/ GetConnection(r)
          \/ GetAdapter(r) \/ SchemaLookup(r) \/ Introspect(r) \/ GetProvider(r)
          \/ ChatGenerateSQL(r) \/ Execute(r) \/ SaveAssistantMessage(r)
          \/ GetSession(r) \/ UpdateSession(r) \/ Return(r)

SpecChat == InitChat /\ [][NextChat]_vars

(***************************************************************************)
(* llm.Router: the two registries and GetProviderWithConfig.               *)
(***************************************************************************)
LLMTags  == {"ollama", "openai", "gemini"}
LLMCalls == {"k1", "k2"}
LLMUsers == {"A", "B", "C"}
\* the credentials the system configuration can hold for a provider
SystemCredentials == {"", "sys"}
\* main registers a factory for these tags; there is none for gemini
FactoryTags == {"ollama", "openai"}

\* users.llm_config: B has a key of their own for openai and for gemini, C
\* only names a model for openai, A overrides nothing.  A config is a set of
\* <<field, value>> pairs.
UserLLMConfig(user, providerName) ==
    IF user = "B" /\ providerName \in {"openai", "gemini"} THEN {<<"api_key", "key-of-B">>}
    ELSE IF user = "C" /\ providerName = "openai" THEN {<<"model", "m1">>}
    ELSE {}

\* config[field].(string): the empty string when the field is missing
Field(config, field) ==
    IF \E p \in config : p[1] = field
    THEN (CHOOSE p \in config : p[1] = field)[2]
    ELSE ""

\* a provider instance; fresh tells an instance a factory built from a
\* registered singleton
Provider(name, credential, fresh) ==
    [name |-> name, credential |-> credential, fresh |-> fresh]
NoProvider == Provider(None, "", FALSE)

\* Provider.IsConfigured: the key (the host, for ollama) is not empty
IsConfigured(provider) == provider.credential # ""

ErrProviderNotFound(name)      == <<"provider", "not", "found:", name>>
ErrProviderNotConfigured(name) == <<"provider", "not", "configured:", name>>

\* the factories main registers: the credential of the override, or the
\* system's when the override has none
ProviderFactory(name, config, cfg) ==
    Provider(name, IF Field(config, "api_key") # "" THEN Field(config, "api_key")
                   ELSE cfg[name], TRUE)

\* GetProviderWithConfig, were the override ignored
GetProviderWithConfig_IgnoresOverride(router, tag, config) ==
    LET name == IF tag = "" THEN router.defaultProvider ELSE tag
    IN  IF name \notin DOMAIN router.providers
        THEN [provider |-> NoProvider, err |-> ErrProviderNotFound(name)]
        ELSE IF ~IsConfigured(router.providers[name])
        THEN [provider |-> NoProvider, err |-> ErrProviderNotConfigured(name)]
        ELSE [provider |-> router.providers[name], err |-> NoError]

\* Router.GetProviderWithConfig
GetProviderWithConfig(router, tag, config) ==
    LET name == IF tag = "" THEN router.defaultProvider ELSE tag
    IN  IF Cardinality(config) > 0 /\ name \in router.factories
        THEN [provider |-> ProviderFactory(name, config, router.cfg), err |-> NoError]
        ELSE IF name \notin DOMAIN router.providers
        THEN [provider |-> NoProvider, err |-> ErrProviderNotFound(name)]
        ELSE IF ~IsConfigured(router.providers[name])
        THEN [provider |-> NoProvider, err |-> ErrProviderNotConfigured(name)]
        ELSE [provider |-> router.providers[name], err |-> NoError]

\* a call of GetProviderWithConfig that has not been made
IdleLLMCall ==
    [pc |-> "ready", user |-> None, tag |-> "", config |-> {}, provider |-> NoProvider,
     err |-> NoError]

\* main: the router is made with the default tag, the factories are
\* registered, and a singleton is registered for every provider the system
\* configuration has a credential for
InitLLM ==
    /\ ValidatorIdle
    /\ AdapterIdle
    /\ ServiceIdle
    /\ RouterIdle
    /\ \E cfg \in [LLMTags -> SystemCredentials], defaultProvider \in LLMTags :
          lr = [cfg |-> cfg, defaultProvider |-> defaultProvider,
                factories |-> FactoryTags,
                providers |-> [t \in {x \in LLMTags : cfg[x] # ""} |->
                                  Provider(t, cfg[t], FALSE)],
                calls |-> [c \in LLMCalls |-> IdleLLMCall]]
    /\ UnitsIdle

\* Router.RegisterProvider: the method stores whatever instance it is given,
\* configured or not
RegisterProvider ==
    /\ \E name \in LLMTags, credential \in SystemCredentials :
          lr' = [lr EXCEPT !.providers = Put(@, name, Provider(name, credential, FALSE))]
    /\ UNCHANGED <<valVars, adVars, svcVars, rc, unitVars>>

\* a user's request reaches the router: ExecuteQuery lines 130-148, or a
\* direct call with an empty tag
LLMCall(c) ==
    /\ lr.calls[c].pc = "ready"
    /\ \E user \in LLMUsers, tag \in LLMTags \cup {"", "mistral"} :
          LET providerName == IF tag = "" THEN lr.defaultProvider ELSE tag
              config       == UserLLMConfig(user, providerName)
              out          == GetProviderWithConfig(lr, tag, config)
          IN  lr' = [lr EXCEPT !.calls[c] =
                        [pc |-> "done", user |-> user, tag |-> tag, config |-> config,
                         provider |-> out.provider, err |-> out.err]]
    /\ UNCHANGED <<valVars, adVars, svcVars, rc, unitVars>>

NextLLM ==
    \/ RegisterProvider
    \/ \E c \in LLMCalls : LLMCall(c)

SpecLLM == InitLLM /\ [][NextLLM]_vars
(***************************************************************************)
(* QueryService.GetSchema and RefreshSchema, one action per blocking call. *)
(***************************************************************************)
InitSchema ==
    /\ ValidatorIdle
    /\ AdapterCallIdle
    /\ tableRows = PipelineTableRows
    /\ \E d \in PipelineDialects :
          /\ connections = Put(<<>>, "c1", Connection("w1", d, 100, 30))
          \* an earlier call of a member has filled the cache, or none has
          /\ schemaCache \in {<<>>, Put(<<>>, "c1", SchemaInfo(d, 0, "earlier"))}
    /\ sessions = <<>>
    /\ messages = <<>>
    /\ adapters = <<>>
    /\ pool = <<>>
    /\ titleTasks = {}
    /\ clock = 1
    /\ rq = [r \in Requests |-> IdleRequest]
    /\ sc = [c \in SchemaCalls |-> [IdleSchemaCall EXCEPT !.pc = "ready"]]
    /\ RouterIdle
    /\ LLMRouterIdle
    /\ UnitsIdle

\* SchemaCache.Invalidate: the key is deleted, unless the cache is unreachable
Invalidate(connectionID, redisUp) ==
    IF redisUp /\ connectionID \in DOMAIN schemaCache
    THEN Drop(schemaCache, connectionID) ELSE schemaCache

\* the call returns (nil, err)
SchemaFail(c, err) == sc' = [sc EXCEPT ![c].pc = "done", ![c].err = err]

\* GetSchema, lines 383-390: the call arrives and asks the cache
GetSchemaCall(c) ==
    /\ sc[c].pc = "ready"
    /\ \E u \in Users, w \in Workspaces, cid \in ConnIds, redisUp \in BOOLEAN :
          LET got    == CacheLookup(cid, redisUp)
              locals == [sc[c] EXCEPT !.op = "GetSchema", !.user = u, !.workspace = w,
                                      !.connection_id = cid, !.began = clock]
          IN  sc' = IF got.hit
                    THEN [sc EXCEPT ![c] = [locals EXCEPT !.pc = "done", !.schema = got.schema]]
                    ELSE [sc EXCEPT ![c] = [locals EXCEPT !.pc = "invalidate"]]
    /\ UNCHANGED <<connections, sessions, messages, adapters, pool, schemaCache,
                   titleTasks, clock, rq>>
    /\ UNCHANGED <<valVars, adVars, rtVars, unitVars>>

\* RefreshSchema, lines 352-356: the call arrives and invalidates the cache
RefreshSchemaCall(c) ==
    /\ sc[c].pc = "ready"
    /\ \E u \in Users, w \in Workspaces, cid \in ConnIds, redisUp \in BOOLEAN :
          /\ sc' = [sc EXCEPT ![c].op = "RefreshSchema", ![c].user = u, ![c].workspace = w,
                              ![c].connection_id = cid, ![c].pc = "conn",
                              ![c].began = clock]
          /\ schemaCache' = Invalidate(cid, redisUp)
    /\ UNCHANGED <<connections, sessions, messages, adapters, pool, titleTasks, clock, rq>>
    /\ UNCHANGED <<valVars, adVars, rtVars, unitVars>>

\* GetSchema, line 393, into RefreshSchema, lines 353-356
RefreshAfterMiss(c) ==
    /\ sc[c].pc = "invalidate"
    /\ \E redisUp \in BOOLEAN : schemaCache' = Invalidate(sc[c].connection_id, redisUp)
    /\ sc' = [sc EXCEPT ![c].pc = "conn"]
    /\ UNCHANGED <<connections, sessions, messages, adapters, pool, titleTasks, clock, rq>>
    /\ UNCHANGED <<valVars, adVars, rtVars, unitVars>>

\* RefreshSchema, lines 358-362
SchemaGetConnection(c) ==
    /\ sc[c].pc = "conn"
    /\ \E fault \in {"none", "membership", "lookup", "decrypt"} :
          LET got == GetFullConnection(connections, sc[c].user, sc[c].workspace,
                                       sc[c].connection_id, fault)
          IN  IF got.err # NoError
              THEN SchemaFail(c, Wrap(<<"failed", "to", "get", "connection:">>, got.err))
              ELSE sc' = [sc EXCEPT ![c].pc = "adapter", ![c].conn = got.conn]
    /\ UNCHANGED <<connections, sessions, messages, adapters, pool, schemaCache,
                   titleTasks, clock, rq>>
    /\ UNCHANGED <<valVars, adVars, rtVars, unitVars>>

\* RefreshSchema, lines 364-377
SchemaGetAdapter(c) ==
    /\ sc[c].pc = "adapter"
    /\ \E healthy \in BOOLEAN, connects \in BOOLEAN :
          LET got == RouterGetAdapter(c, sc[c].connection_id, sc[c].conn.database_type,
                                      healthy, connects)
          IN  /\ adapters' = got.adapters
              /\ pool' = got.pool
              /\ IF got.err # NoError
                 THEN SchemaFail(c, Wrap(<<"failed", "to", "get", "adapter:">>, got.err))
                 ELSE sc' = [sc EXCEPT ![c].pc = "schema", ![c].adapter = got.adapter]
    /\ UNCHANGED <<connections, sessions, messages, schemaCache, titleTasks, clock, rq>>
    /\ UNCHANGED <<valVars, adVars, rtVars, unitVars>>

\* RefreshSchema, line 379: getSchema asks the cache
SchemaCacheLookup(c) ==
    /\ sc[c].pc = "schema"
    /\ \E redisUp \in BOOLEAN :
          LET got == CacheLookup(sc[c].connection_id, redisUp)
          IN  sc' = IF got.hit
                    THEN [sc EXCEPT ![c].pc = "done", ![c].schema = got.schema]
                    ELSE [sc EXCEPT ![c].pc = "introspect"]
    /\ UNCHANGED <<connections, sessions, messages, adapters, pool, schemaCache,
                   titleTasks, clock, rq>>
    /\ UNCHANGED <<valVars, adVars, rtVars, unitVars>>

\* RefreshSchema, line 379: getSchema, lines 299-338, introspects the database
\* and stamps the snapshot
SchemaIntrospect(c) ==
    /\ sc[c].pc = "introspect"
    /\ \E outcome \in IntrospectOutcomes :
          LET got == IntrospectResult(sc[c].connection_id, sc[c].conn.database_type,
                                      c, outcome, FALSE)
          IN  IF got.err # NoError
              THEN sc' = [sc EXCEPT ![c].pc = "done", ![c].err = got.err,
                                    ![c].issued = TRUE]
              ELSE sc' = [sc EXCEPT ![c].pc = "store", ![c].schema = got.schema,
                                    ![c].issued = TRUE]
    /\ UNCHANGED <<connections, sessions, messages, adapters, pool, schemaCache,
                   titleTasks, clock, rq>>
    /\ UNCHANGED <<valVars, adVars, rtVars, unitVars>>

\* RefreshSchema, line 379: getSchema, lines 340-345, stores the snapshot in
\* the cache (a failure of the cache is ignored) and returns it
SchemaCacheSet(c) ==
    /\ sc[c].pc = "store"
    /\ \E redisUp \in BOOLEAN :
          schemaCache' = IF redisUp
                         THEN Put(schemaCache, sc[c].connection_id, sc[c].schema)
                         ELSE schemaCache
    /\ sc' = [sc EXCEPT ![c].pc = "done"]
    /\ UNCHANGED <<connections, sessions, messages, adapters, pool, titleTasks, clock, rq>>
    /\ UNCHANGED <<valVars, adVars, rtVars, unitVars>>

\* an entry of the cache reaches its time to live
CacheExpire ==
    /\ \E k \in DOMAIN schemaCache : schemaCache' = Drop(schemaCache, k)
    /\ UNCHANGED <<connections, sessions, messages, adapters, pool, titleTasks, clock, rq, sc>>
    /\ UNCHANGED <<valVars, adVars, rtVars, unitVars>>

NextSchema ==
    \/ \E c \in SchemaCalls :
          \/ GetSchemaCall(c) \/ RefreshSchemaCall(c) \/ RefreshAfterMiss(c)
          \/ SchemaGetConnection(c) \/ SchemaGetAdapter(c)
          \/ SchemaCacheLookup(c) \/ SchemaIntrospect(c) \/ SchemaCacheSet(c)
    \/ CacheExpire
    \/ Tick

SpecSchema == InitSchema /\ [][NextSchema]_vars


(***************************************************************************)
(* A call that creates a session, the title goroutine it starts, and a     *)
(* second call made when the first has returned, which may use the new     *)
(* session while the goroutine is still running.                           *)
(***************************************************************************)
InitTitle ==
    /\ ValidatorIdle
    /\ AdapterCallIdle
    /\ tableRows = PipelineTableRows
    /\ connections = Put(<<>>, "c1", Connection("w1", "postgres", 100, 30))
    /\ sessions = <<>>
    /\ messages = <<>>
    /\ adapters = <<>>
    /\ pool = <<>>
    /\ schemaCache = <<>>
    /\ titleTasks = {}
    /\ clock = 1
    /\ rq = [r \in Requests |-> [IdleRequest EXCEPT !.pc = "ready"]]
    /\ sc = [c \in SchemaCalls |-> IdleSchemaCall]
    /\ RouterIdle
    /\ LLMRouterIdle
    /\ UnitsIdle

\* the calls are alice's, in her workspace, on connection c1; the SQL is not
\* executed; the first call names no session, the second the session of the
\* first
TitleInputs ==
    \A r \in Requests :
        rq[r].pc \notin {"idle", "ready"} =>
            /\ rq[r].user = "alice"
            /\ rq[r].workspace = "w1"
            /\ rq[r].session_id = IF r = "r1" THEN None ELSE NewSessionID("r1")
            /\ r = "r2" => rq[r].question = questionShort
            /\ rq[r].connection_id = "c1"
            /\ ~rq[r].execute
            /\ rq[r].options = NoOptions
            /\ rq[r].reply \in {<<>>, replyFencedSelect}
            /\ rq[r].explanation = <<>>

TitleBegin(r) ==
    /\ r = "r2" => Returned("r1")
    /\ Begin(r)
    /\ TitleInputs'
TitleGenerateSQL(r) == GenerateSQL(r) /\ TitleInputs'

NextTitle ==
    \E r \in Requests :
        \/ TitleBegin(r) \/ SaveUserMessage(r) \/ FetchHistory(r) \/ GetConnection(r)
        \/ GetAdapter(r) \/ SchemaLookup(r) \/ Introspect(r) \/ GetProvider(r)
        \/ TitleGenerateSQL(r) \/ SaveAssistantMessage(r)
        \/ GetSession(r) \/ UpdateSession(r) \/ Return(r)
        \/ TitleGetSession(r) \/ TitleGetUser(r) \/ TitleGenerate(r) \/ TitleUpdate(r)

SpecTitle == InitTitle /\ [][NextTitle]_vars
(***************************************************************************)
(* llm.ExtractSQL applied to every reply of a bounded set, one action per  *)
(* iteration of the loop of removeThinkingTags.                            *)
(***************************************************************************)
MaxTokens == 4    \* tokens in the text of a reply

ReplyTokens ==
    { tagThinkOpen, tagThinkClose, fence, fenceSQL, kwSELECT,
      <<"x">>, <<" ">>, <<"\n">>, <<";">> }

RECURSIVE Texts(_)
Texts(n) == IF n = 0 THEN {<<>>}
            ELSE LET shorter == Texts(n - 1)
                 IN  shorter \cup {t \o f : t \in shorter, f \in ReplyTokens}

\* the text X wrapped in a fenced block tagged sql
FencedSQL(X) == fenceSQL \o <<"\n">> \o X \o <<"\n">> \o fence

\* ExtractSQL is called, line 70, on a text or on a text wrapped in a fenced
\* block: removeThinkingTags starts on the reply
InitExtract ==
    /\ ValidatorIdle
    /\ AdapterIdle
    /\ ServiceIdle
    /\ RouterIdle
    /\ LLMRouterIdle
    /\ ac = <<>>
    /\ \E X \in Texts(MaxTokens), fenced \in BOOLEAN :
          LET reply == IF fenced THEN FencedSQL(X) ELSE X
          IN  xc = [pc |-> "loop", reply |-> reply, content |-> reply, iters |-> 0,
                    sql |-> <<>>,
                    \* how the reply was made (kept for the claims only)
                    body |-> X, fenced |-> fenced]

\* removeThinkingTags, lines 107-119: both tags are found and the block
\* between them is cut out
RemoveThinkingIterate ==
    /\ xc.pc = "loop"
    /\ xc.iters < MaxThinkIters
    /\ LET startIdx == indexOf(xc.content, tagThinkOpen)
           endIdx   == indexOf(xc.content, tagThinkClose)
       IN  /\ startIdx # 0
           /\ endIdx # 0
           /\ xc' = [xc EXCEPT !.content = removeThinkBlock(xc.content, startIdx, endIdx),
                               !.iters = xc.iters + 1]
    /\ UNCHANGED <<valVars, adVars, svcVars, rtVars, ac>>

\* removeThinkingTags, lines 108-116 and 121: the loop is left
RemoveThinkingReturn ==
    /\ xc.pc = "loop"
    /\ LET startIdx == indexOf(xc.content, tagThinkOpen)
           endIdx   == indexOf(xc.content, tagThinkClose)
       IN  /\ startIdx = 0 \/ endIdx = 0
           /\ xc' = [xc EXCEPT !.pc = "stripped",
                               !.content = trimWhitespace(
                                   IF startIdx = 0 THEN xc.content
                                   ELSE SubSeq(xc.content, 1, startIdx - 1))]
    /\ UNCHANGED <<valVars, adVars, svcVars, rtVars, ac>>

\* ExtractSQL, lines 72-93
ExtractReturn ==
    /\ xc.pc = "stripped"
    /\ xc' = [xc EXCEPT !.pc = "done", !.sql = extractFromStripped(xc.content)]
    /\ UNCHANGED <<valVars, adVars, svcVars, rtVars, ac>>

NextExtract == RemoveThinkingIterate \/ RemoveThinkingReturn \/ ExtractReturn

SpecExtract == InitExtract /\ [][NextExtract]_vars

(***************************************************************************)
(* One adapter of each package under Connect, HealthCheck and Close.  The  *)
(* adapter holds a handle (client, pool, db or conn) to a driver object;   *)
(* the driver object is open or closed.                                    *)
(***************************************************************************)
MaxCloses   == 3    \* calls of Close that are followed
MaxConnects == 2    \* calls of Connect that are followed

\* the adapter packages; clickhouse has an HTTP adapter and a native one
AdapterKinds == {"postgres", "mysql", "sqlite", "clickhouse", "clickhouse_native", "mongodb"}

ErrNotConnected       == <<"not", "connected">>
\* what the MongoDB driver answers to Disconnect on a disconnected client
ErrClientDisconnected == <<"client", "is", "disconnected">>

\* the adapter a factory has just made
NewAdapter(kind) ==
    [kind |-> kind, handle |-> FALSE, driver |-> "none",
     connects |-> 0, closes |-> 0, released |-> 0,
     err |-> NoError, health |-> NoError,
     \* Close has returned and Connect has not succeeded since (kept for the
     \* claims only)
     closed |-> FALSE]

InitClose ==
    /\ ValidatorIdle
    /\ AdapterIdle
    /\ ServiceIdle
    /\ RouterIdle
    /\ LLMRouterIdle
    /\ xc = <<>>
    /\ \E kind \in AdapterKinds : ac = NewAdapter(kind)

\* Adapter.Connect: the handle is stored when the driver object was made and
\* answered the ping
AdapterConnect ==
    /\ ac.connects < MaxConnects
    /\ \E ok \in BOOLEAN :
          ac' = IF ok
                THEN [ac EXCEPT !.handle = TRUE, !.driver = "open", !.closed = FALSE,
                                !.connects = ac.connects + 1, !.err = NoError]
                ELSE [ac EXCEPT !.connects = ac.connects + 1, !.err = ErrDatabase]
    /\ UNCHANGED <<valVars, adVars, svcVars, rtVars, xc>>

\* Adapter.HealthCheck: "not connected" without a handle, else a ping
AdapterHealthCheck ==
    /\ \E pingFails \in BOOLEAN :
          ac' = [ac EXCEPT !.health =
                    IF ~ac.handle THEN ErrNotConnected
                    ELSE IF ac.driver # "open" \/ pingFails THEN ErrDatabase
                    ELSE NoError]
    /\ UNCHANGED <<valVars, adVars, svcVars, rtVars, xc>>

\* Adapter.Close of the MongoDB adapter: the client is disconnected and kept
MongoClose(a, driverErr) ==
    IF a.handle
    THEN [a EXCEPT !.driver = "closed", !.released = a.released + 1,
                   !.err = IF a.driver # "open" THEN ErrClientDisconnected ELSE driverErr]
    ELSE [a EXCEPT !.err = NoError]

\* Adapter.Close of the PostgreSQL adapter: the pool is closed and dropped
PostgresClose(a) ==
    IF a.handle
    THEN [a EXCEPT !.driver = "closed", !.released = a.released + 1,
                   !.handle = FALSE, !.err = NoError]
    ELSE [a EXCEPT !.err = NoError]

\* Adapter.Close of the MySQL, SQLite and ClickHouse adapters: the handle is
\* closed and dropped, and the driver's error is returned
HandleClose(a, driverErr) ==
    IF a.handle
    THEN [a EXCEPT !.driver = "closed", !.released = a.released + 1,
                   !.handle = FALSE, !.err = driverErr]
    ELSE [a EXCEPT !.err = NoError]

AdapterClose ==
    /\ ac.closes < MaxCloses
    /\ \E driverErr \in {NoError, ErrDatabase} :
          LET after == IF ac.kind = "mongodb" THEN MongoClose(ac, driverErr)
                       ELSE IF ac.kind = "postgres" THEN PostgresClose(ac)
                       ELSE HandleClose(ac, driverErr)
          IN  ac' = [after EXCEPT !.closes = ac.closes + 1, !.closed = TRUE]
    /\ UNCHANGED <<valVars, adVars, svcVars, rtVars, xc>>

NextClose == AdapterConnect \/ AdapterHealthCheck \/ AdapterClose

SpecClose == InitClose /\ [][NextClose]_vars

(***************************************************************************)
(* Properties of the validator and the row cap.                            *)
(***************************************************************************)
\* a ';' that is followed by further statement text
HasSecondStatement(s) ==
    \E i \in 1..Len(s) :
        /\ s[i] = ";"
        /\ \E j \in (i + 1)..Len(s) : ~IsSpace(s[j]) /\ s[j] # ";"

\* C3: every string ValidateSQL accepts is a single statement: it holds no
\* ';' followed by further statement text.
C3_AcceptedIsSingleStatement ==
    (vpc = "validated" /\ verdict = NoError) => ~HasSecondStatement(sql)

BlockedKeywords ==
    { kwBlocked.INSERT, kwBlocked.UPDATE, kwBlocked.DELETE, kwBlocked.DROP, kwBlocked.TRUNCATE, kwBlocked.ALTER, kwBlocked.CREATE,
      kwBlocked.GRANT, kwBlocked.REVOKE, kwBlocked.EXEC, kwBlocked.EXECUTE }

\* number of word characters of s starting at position i
RECURSIVE WordRun(_, _)
WordRun(s, i) == IF i <= Len(s) /\ IsWordChar(s[i]) THEN 1 + WordRun(s, i + 1) ELSE 0

\* the first keyword of s: the word that follows the leading whitespace
FirstKeyword(s) ==
    LET k == SpaceRun(s, 1) IN SubSeq(s, k + 1, k + WordRun(s, k + 1))

\* s starts, after whitespace and in any case, with the letters of kw
StartsWith(s, kw) ==
    LET k == SpaceRun(s, 1)
    IN  /\ k + Len(kw) <= Len(s)
        /\ \A i \in 1..Len(kw) : ToUpperChar(s[k + i]) = kw[i]

\* C4: ValidateSQL fails when the first keyword is a blocked keyword, when
\* the input is empty or blank, and when a generic or dialect-specific
\* blocked pattern matches; it succeeds when the input starts with SELECT or
\* WITH, matches no blocked pattern and has at most one ';'.
C4_ValidateSQLDecides ==
    vpc = "validated" =>
        LET matched == \/ MatchesAny(blockedPatterns, sql)
                       \/ MatchesAny(DialectPatterns(dialect), sql)
            blank   == \A i \in 1..Len(sql) : IsSpace(sql[i])
        IN  /\ (ToUpper(FirstKeyword(sql)) \in BlockedKeywords \/ blank \/ matched)
                  => verdict # NoError
            /\ ( /\ StartsWith(sql, kwSELECT) \/ StartsWith(sql, kwWITH)
                 /\ ~matched
                 /\ Count(sql, ";") <= 1 )
                  => verdict = NoError

\* a call that only a dialect-specific pattern rejected
C4_Witness ==
    /\ vpc = "validated"
    /\ dialect = "clickhouse"
    /\ verdict = ErrBlocked
    /\ ~MatchesAny(blockedPatterns, sql)

\* sql without its surrounding whitespace and without one trailing ';'
Core(s) ==
    LET keep == {i \in 1..Len(s) : ~IsSpace(s[i])}
    IN  IF keep = {} THEN <<>>
        ELSE LET lo == CHOOSE i \in keep : \A j \in keep : i <= j
                 hi == CHOOSE i \in keep : \A j \in keep : j <= i
             IN  IF s[hi] = ";" THEN SubSeq(s, lo, hi - 1) ELSE SubSeq(s, lo, hi)

\* C8: EnforceLimit(sql, cap, "LIMIT") returns sql unchanged when the
\* upper-cased sql contains LIMIT; otherwise it returns sql without its
\* surrounding whitespace and without one trailing ';', followed by
\* " LIMIT " and the decimal numeral of cap.
C8_EnforceLimit ==
    vpc = "limited" =>
        IF \E i \in 1..(Len(sql) - 4) :
               \A k \in 1..5 : ToUpperChar(sql[i + k - 1]) = kwLIMIT[k]
        THEN limited = sql
        ELSE LET n  == Len(Core(sql))
                 ds == SubSeq(limited, n + 8, Len(limited))
             IN  /\ Len(limited) >= n + 8
                 /\ SubSeq(limited, 1, n) = Core(sql)
                 /\ SubSeq(limited, n + 1, n + 7) = <<" ", "L", "I", "M", "I", "T", " ">>
                 /\ IsNumeral(ds)
                 /\ ParseInt(ds) = cap

\* a call that stripped a trailing ';' and appended the cap
C8_Witness ==
    /\ vpc = "limited"
    /\ ~Contains(ToUpper(sql), kwLIMIT)
    /\ HasSuffix(TrimSpace(sql), <<";">>)
    /\ limited # sql

(***************************************************************************)
(* Properties of Adapter.ExecuteQuery.                                     *)
(***************************************************************************)
\* C2: on every adapter a text reaches the driver only if the adapter's
\* ValidateQuery accepted the text of the call, and what is sent is that
\* text or, on the SQL adapters, that text with the row cap appended, which
\* the validator accepts too; when ValidateQuery rejects the text the call
\* returns an error and sends nothing to the driver.
C2_ValidatedBeforeDriver ==
    apc = "done" =>
        LET rejected == ValidateQuery(aDialect, aText) # NoError
        IN  /\ aOut.sent # <<>> => ~rejected
            /\ rejected => (aOut.result.err # NoError /\ aOut.sent = <<>>)
            /\ aDialect \in SQLDialects =>
                  \A i \in 1..Len(aOut.sent) :
                      ValidateQuery(aDialect, aOut.sent[i]) = NoError

\* a call whose text was accepted, sent to the driver and answered with rows
C2_Witness ==
    /\ apc = "done"
    /\ aDialect = "sqlite"
    /\ aOut.sent # <<>>
    /\ aOut.result.err = NoError
    /\ aOut.result.row_count > 0

\* C6: on every adapter a successful ExecuteQuery call with max_rows = N
\* returns row_count = len(rows) <= N.
C6_RowCountWithinCap ==
    (apc = "done" /\ aOut.result.err = NoError) =>
        /\ aOut.result.row_count = Len(aOut.result.rows)
        /\ aOut.result.row_count <= aMaxRows

\* C7: on the SQL adapters truncated is true exactly when the query would
\* yield more than max_rows rows; in particular a query without a LIMIT
\* clause on a table of more than max_rows rows returns row_count =
\* max_rows and truncated = true.
C7_TruncatedIffMoreRows ==
    (apc = "done" /\ aDialect \in SQLDialects /\ aOut.result.err = NoError) =>
        /\ aOut.result.truncated <=> (DriverRows(aText, tableRows) > aMaxRows)
        /\ (~HasLimitClause(aText) /\ tableRows > aMaxRows) =>
              (aOut.result.row_count = aMaxRows /\ aOut.result.truncated)

(***************************************************************************)
(* Claims about QueryService.ExecuteQuery.                                 *)
(***************************************************************************)
NonMember(r) == ~IsMember(rq[r].workspace, rq[r].user)

\* what a request left behind
SessionCreatedBy(r)   == NewSessionID(r) \in DOMAIN sessions
MessagesWrittenBy(r)  == {i \in 1..Len(messages) : messages[i].by = r}
AdaptersPooledBy(r)   == {k \in DOMAIN pool : adapters[pool[k]].by = r}
TitleTasksStartedBy(r) == {t \in titleTasks : t.by = r}

\* C1: when the caller is not a member of the workspace, ExecuteQuery
\* returns access denied and leaves persisted state unchanged: it created no
\* session row, wrote no user or assistant message, pooled no adapter and
\* started no title task.  (A call that ended on a failure of the
\* database itself is left aside.)
C1_NonMemberLeavesNoTrace ==
    \A r \in Requests :
        (Returned(r) /\ NonMember(r) /\ ~HasSuffix(rq[r].err, ErrDatabase)) =>
            /\ HasSuffix(rq[r].err, ErrAccessDenied)
            /\ ~SessionCreatedBy(r)
            /\ MessagesWrittenBy(r) = {}
            /\ AdaptersPooledBy(r) = {}
            /\ TitleTasksStartedBy(r) = {}

FencedDropExecuted(r) ==
    Returned(r) /\ rq[r].reply = replyFencedDrop /\ rq[r].execute

qDropTable == <<"D", "R", "O", "P", " ", "T", "A", "B", "L", "E", " ", "u", "s", "e", "r", "s">>

\* C5 as stated: when the reply of the model is a fenced sql block holding
\* 'DROP TABLE users;' and execute is true, the pipeline returns normally
\* with sql 'DROP TABLE users', no result, and an error that mentions
\* "blocked".
C5_ErrorMentionsBlocked ==
    \A r \in Requests :
        FencedDropExecuted(r) =>
            /\ rq[r].err = NoError
            /\ rq[r].response.sql = qDropTable
            /\ ~rq[r].response.has_result
            /\ rq[r].response.error # NoError
            /\ Mentions(rq[r].response.error, "blocked")

\* C5 amended: in that case the pipeline returns normally with sql
\* 'DROP TABLE users', no result and an error of the adapter's validator:
\* "only SELECT statements allowed" on the SQL adapters (the first-keyword
\* rule fails before the blocked patterns are tried) and "invalid mongodb
\* query: expected JSON object" on MongoDB; nothing reaches the driver.
C5_RejectedByFirstKeywordRule ==
    \A r \in Requests :
        FencedDropExecuted(r) =>
            /\ rq[r].err = NoError
            /\ rq[r].response.sql = qDropTable
            /\ ~rq[r].response.has_result
            /\ rq[r].response.error =
                  IF rq[r].conn.database_type = "mongodb" THEN ErrMongoInvalid
                  ELSE ErrOnlySelect
            /\ ~Mentions(rq[r].response.error, "blocked")
            /\ rq[r].sent = <<>>

C5_Witness ==
    \E r \in Requests :
        /\ FencedDropExecuted(r)
        /\ rq[r].conn.database_type = "postgres"
        /\ rq[r].response.error = ErrOnlySelect

\* C9: the row cap and the timeout handed to the adapter never exceed the
\* limits of the connection: the cap is the smaller of connection.max_rows
\* and the request's max_rows if given, the timeout the smaller of
\* connection.timeout_seconds and the request's timeout_seconds if given.
C9_EffectiveLimitsWithinConnection ==
    \A r \in Requests :
        rq[r].queryOpts.MaxRows > 0 =>
            LET conn == rq[r].conn
                o    == rq[r].options
            IN  /\ rq[r].queryOpts.MaxRows =
                      IF o.given /\ o.max_rows > 0
                      THEN Min(conn.max_rows, o.max_rows) ELSE conn.max_rows
                /\ rq[r].queryOpts.Timeout =
                      IF o.given /\ o.timeout_seconds > 0
                      THEN Min(conn.timeout_seconds, o.timeout_seconds)
                      ELSE conn.timeout_seconds
                /\ rq[r].queryOpts.MaxRows <= conn.max_rows
                /\ rq[r].queryOpts.Timeout <= conn.timeout_seconds

\* the workspace a session row belongs to
SessionWorkspace(sessionID) ==
    IF sessionID \in DOMAIN sessions THEN sessions[sessionID].workspace ELSE None

\* C11: every message persisted by the pipeline carries the workspace id of
\* the session it is linked to: a request made in workspace W (by a member
\* of W) never appends a message to, nor feeds history from, a session that
\* belongs to a different workspace.
C11_MessagesStayInWorkspace ==
    /\ \A i \in 1..Len(messages) :
          IsMember(messages[i].workspace, rq[messages[i].by].user) =>
              SessionWorkspace(messages[i].session) = messages[i].workspace
    /\ \A r \in Requests :
          (~NonMember(r) /\ rq[r].history # <<>>) =>
              SessionWorkspace(rq[r].sessionID) = rq[r].workspace


\* the call has logged the event
Did(r, event) == \E i \in 1..Len(rq[r].events) : rq[r].events[i] = event

\* the assistant message request r has stored
AssistantRowOf(r) ==
    {i \in 1..Len(messages) : messages[i].by = r /\ messages[i].role = "assistant"}

\* C14: when the validation or the execution of the generated SQL fails,
\* ExecuteQuery returns no error: the response carries the error text and no
\* result, and the assistant message of the attempt is written, with the
\* generated SQL, unless the insert itself fails.
C14_ExecutionErrorDoesNotAbort ==
    \A r \in Requests :
        Did(r, "execute_failed") =>
            /\ rq[r].err = NoError
            /\ rq[r].response.error # NoError
            /\ ~rq[r].response.has_result
            /\ rq[r].pc # "aiMsg" =>
                  /\ Did(r, "assistant_write_ok") \/ Did(r, "assistant_write_failed")
                  /\ Did(r, "assistant_write_ok") =>
                        \E i \in AssistantRowOf(r) :
                            /\ messages[i].sql = rq[r].response.sql
                            /\ messages[i].content =
                                  AssistantContent(rq[r].explanation, rq[r].response.error)

\* a call has returned a response with an error after the validator
\* rejected the statement, and its assistant message is stored
C14_Witness ==
    \E r \in Requests :
        /\ Returned(r)
        /\ Did(r, "execute_failed")
        /\ rq[r].sent = <<>>
        /\ rq[r].response.error # NoError
        /\ AssistantRowOf(r) # {}

\* the positions in the log of request r of the events in the set
At(r, evs) == {i \in 1..Len(rq[r].events) : rq[r].events[i] \in evs}
\* every event of the set later comes after some event of the set earlier
Precedes(r, earlier, later) ==
    \A j \in At(r, later) : \E i \in At(r, earlier) : i < j

UserWrite      == {"user_write_ok", "user_write_failed"}
Generation     == {"generate_ok", "generate_failed"}
Execution      == {"execute_ok", "execute_failed"}
AssistantWrite == {"assistant_write_ok", "assistant_write_failed"}

\* C15: within one ExecuteQuery call the user message write is attempted
\* before GenerateSQL is called; the assistant message is written only after
\* GenerateSQL has returned a reply and, when execution was requested for a
\* non-empty statement, after the adapter has returned; when GenerateSQL
\* fails no assistant message is written.
C15_OrderOfEvents ==
    \A r \in Requests :
        /\ Precedes(r, UserWrite, Generation)
        /\ Precedes(r, {"generate_ok"}, AssistantWrite)
        /\ (rq[r].execute /\ rq[r].response.sql # <<>>) =>
              Precedes(r, Execution, AssistantWrite)
        /\ AssistantRowOf(r) # {} => Did(r, "assistant_write_ok")
        /\ Did(r, "generate_failed") => At(r, AssistantWrite) = {} /\ AssistantRowOf(r) = {}

\* a call has written the user message, generated, executed and then written
\* the assistant message; the clock moved in between
C15_Witness ==
    \E r \in Requests :
        /\ Did(r, "user_write_ok") /\ Did(r, "generate_ok")
        /\ Did(r, "execute_ok") /\ Did(r, "assistant_write_ok")
        /\ \E i \in AssistantRowOf(r) : messages[i].created_at > rq[r].startTime

\* C17: for a session the pipeline created, once the first ExecuteQuery call
\* has written the session row back (and whatever the title task has done
\* since), the title is not empty, is the truncated first question or the
\* model's summary of it, and is never the placeholder "New Chat".
C17_TitleDerivedFromQuestion ==
    \A r \in Requests :
        (rq[r].isNewSession /\ Did(r, "session_update_ok")) =>
            /\ sessions[rq[r].sessionID].title # <<>>
            /\ sessions[rq[r].sessionID].title # titleNewChat
            /\ sessions[rq[r].sessionID].title \in {ProvisionalTitle(rq[r].question), titleSummary}

\* the newest message of a session is not newer than the session's updated_at
UpdatedAtCoversMessages(sessionID) ==
    \A i \in 1..Len(messages) :
        messages[i].session = sessionID =>
            sessions[sessionID].updated_at >= messages[i].created_at

\* C18: in every state, each session that has a message has an updated_at no
\* older than the newest created_at of its messages, also after a call that
\* aborts at the LLM call.
C18_UpdatedAtCoversMessages ==
    \A sessionID \in DOMAIN sessions : UpdatedAtCoversMessages(sessionID)

\* the call ended on the failure of the workspace membership check
MembershipCheckFailed(r) ==
    /\ Returned(r)
    /\ HasSuffix(rq[r].err, ErrAccessDenied)

\* C26: a query or generate request that fails the workspace membership
\* check is surfaced to the HTTP caller as 403 access denied, not as a 5xx
\* internal error.
C26_AccessDeniedIs403 ==
    \A r \in Requests :
        MembershipCheckFailed(r) => QueryHandlerStatus(rq[r].err) = StatusForbidden

\* the blocking calls of generateSessionTitle
TitleCalls == {"session_read", "user_read", "generate_title", "session_update"}

\* the call was made under a context that no caller can cancel
Detached(k) == k.ctx.root = "background"

\* the call was made under the 10-second deadline
Bounded(k) == k.ctx.timeout = TitleTimeoutSeconds

\* C29: a title task exists only for a call that created its session, every
\* blocking call it makes (session read, user read, GenerateTitle, session
\* update) runs under a context detached from the caller and carrying the
\* 10-second deadline, and so the task is never stuck in a call.
C29_TitleTaskBounded ==
    \A t \in titleTasks :
        /\ rq[t.by].isNewSession
        /\ t.pc # "blocked"
        /\ \A k \in t.calls : k.call \in TitleCalls /\ Detached(k) /\ Bounded(k)

\* what does hold: the task is detached, started only for a new session, and
\* GenerateTitle and the session update run under the deadline
TitleModelCallsBounded ==
    \A t \in titleTasks :
        /\ rq[t.by].isNewSession
        /\ \A k \in t.calls :
              /\ Detached(k)
              /\ k.call \in {"generate_title", "session_update"} => Bounded(k)
              /\ k.call \in {"session_read", "user_read"} => k.ctx = Background
(***************************************************************************)
(* Claims about GetSchema and RefreshSchema.                               *)
(***************************************************************************)
SchemaNonMember(c) == ~IsMember(sc[c].workspace, sc[c].user)

\* a non-member's call that has returned holds access denied and no snapshot
NonMemberGetsNoSnapshot ==
    \A c \in SchemaCalls :
        (sc[c].pc = "done" /\ SchemaNonMember(c) /\ ~HasSuffix(sc[c].err, ErrDatabase)) =>
            /\ HasSuffix(sc[c].err, ErrAccessDenied)
            /\ sc[c].schema = NoSchema

\* a step of a non-member's call leaves the schema cache as it is
NonMemberKeepsCache ==
    \A c \in SchemaCalls :
        (sc'[c] # sc[c] /\ ~IsMember(sc'[c].workspace, sc'[c].user)) =>
            schemaCache' = schemaCache

\* C10: a caller with no workspace membership never receives a schema
\* snapshot: GetSchema and RefreshSchema return access denied to a
\* non-member for every connection id, whether or not a snapshot for that id
\* is in the schema cache, and a non-member's call does not invalidate the
\* cache entry.
C10_NonMemberSchemaDenied ==
    /\ []NonMemberGetsNoSnapshot
    /\ [][NonMemberKeepsCache]_vars


\* a RefreshSchema call that has returned a snapshot
Refreshed(c) ==
    /\ sc[c].pc = "done"
    /\ sc[c].op = "RefreshSchema"
    /\ sc[c].err = NoError

\* a GetSchema call that has returned the snapshot of an earlier call
ServedFromCache(c) ==
    /\ sc[c].pc = "done"
    /\ sc[c].op = "GetSchema"
    /\ sc[c].err = NoError
    /\ sc[c].schema.by # c

\* C21: a GetSchema call served within the time to live of the cache after an
\* earlier call issues no introspection, and every RefreshSchema call
\* re-issues introspection: the snapshot it returns was introspected after
\* the refresh began, also when other schema reads for the same connection
\* run concurrently.
C21_RefreshReintrospects ==
    \A c \in SchemaCalls :
        /\ ServedFromCache(c) => ~sc[c].issued
        /\ Refreshed(c) => /\ sc[c].issued
                           /\ sc[c].schema.by = c
                           /\ sc[c].schema.cached_at >= sc[c].began

(***************************************************************************)
(* Claims about the adapter pool.                                          *)
(***************************************************************************)
\* the open adapters of a connection
LiveAdapters(k) ==
    {i \in 1..Len(adapters) : adapters[i].connection = k /\ adapters[i].open}

\* C12: under any interleaving of GetAdapter and CloseConnection calls there
\* is at most one live adapter per connection id and it is the pooled one: no
\* call removes from the pool an adapter another call has just made, leaving
\* it open and unpooled.
C12_OneLiveAdapterAndPooled ==
    \A k \in RouterConnIds :
        \A i \in LiveAdapters(k) : k \in DOMAIN pool /\ pool[k] = i

\* C13: when ConnectionService.Delete has returned without error, the pool
\* holds no adapter for the deleted connection id.
C13_DeleteEvictsAdapter ==
    [][\A p \in RouterCalls :
          (ConnectionDelete(p) /\ rc'[p].err = NoError) => rc'[p].key \notin DOMAIN pool']_vars

\* HealthCheck of the pooled adapter succeeded: that instance is returned,
\* nothing is made or connected and the pool is left as it is
ReturnsPooledInstance(p) ==
    (RouterHealthCheck(p) /\ rc'[p].pc = "done") =>
        /\ rc'[p].adapter = rc[p].seen
        /\ rc'[p].err = NoError
        /\ adapters' = adapters
        /\ pool' = pool

\* HealthCheck of the pooled adapter failed: it is closed and removed
DiscardsUnhealthy(p) ==
    RouterEvict(p) =>
        /\ ~adapters'[rc[p].seen].open
        /\ \A k \in DOMAIN pool' : pool'[k] # rc[p].seen
        /\ rc'[p].pc = "create"

\* creation succeeded: the adapter returned is open and stored under the id,
\* and it is newly connected unless the second look at the pool found a
\* healthy one
StoresWhatItReturns(p) ==
    (RouterCreate(p) /\ rc'[p].err = NoError) =>
        LET key == rc[p].key
        IN  /\ key \in DOMAIN pool'
            /\ pool'[key] = rc'[p].adapter
            /\ adapters'[rc'[p].adapter].open
            /\ rc'[p].adapter # rc[p].seen
            /\ \/ rc'[p].adapter = Len(adapters) + 1
               \/ key \in DOMAIN pool /\ pool[key] = rc'[p].adapter /\ adapters' = adapters

\* the factory is missing or Connect failed: an error, and no entry for the id
FailureLeavesNoEntry(p) ==
    (RouterCreate(p) /\ rc'[p].err # NoError) =>
        /\ rc[p].key \notin DOMAIN pool'
        /\ rc'[p].adapter = 0
        /\ Len(adapters') = Len(adapters)

\* C27: GetAdapter on a connection id with a pooled adapter calls HealthCheck
\* on it: on success it returns that same instance without calling the
\* factory or Connect and leaves the pool unchanged; on failure it closes and
\* removes that adapter and then stores and returns a newly connected one;
\* when the factory is missing or Connect fails, the call returns an error
\* and the pool has no entry for the id.
C27_GetAdapterOutcomes ==
    [][\A p \in RouterCalls :
          /\ ReturnsPooledInstance(p)
          /\ DiscardsUnhealthy(p)
          /\ StoresWhatItReturns(p)
          /\ FailureLeavesNoEntry(p)]_vars

\* a call found the pooled adapter unhealthy and returned a new one, and
\* another found the factory missing
C27_Witness ==
    /\ \E p \in RouterCalls :
          /\ rc[p].pc = "done" /\ rc[p].op = "GetAdapter" /\ rc[p].err = NoError
          /\ rc[p].seen # 0 /\ rc[p].adapter > rc[p].seen
          /\ ~adapters[rc[p].seen].open
    /\ \E p \in RouterCalls :
          /\ rc[p].pc = "done" /\ rc[p].op = "GetAdapter" /\ rc[p].err # NoError
          /\ rc[p].dbType \notin RegisteredAdapters
          /\ rc[p].seen # 0
    /\ \E p \in RouterCalls :
          /\ rc[p].pc = "done" /\ rc[p].op = "GetAdapter" /\ rc[p].err = NoError
          /\ rc[p].seen # 0 /\ rc[p].adapter = rc[p].seen

\* C28: every adapter stored in the router pool is live (connected and not
\* closed): no operation, ConnectionService.TestConnection included, leaves a
\* closed adapter in the pool.
C28_PoolHoldsLiveAdapters ==
    \A k \in DOMAIN pool : adapters[pool[k]].open

(***************************************************************************)
(* Claims about the history window.                                        *)
(***************************************************************************)
\* h holds the min(limit, n) newest of the n rows of the session, each once,
\* the oldest first
TrailingWindow(h, rows, sessionID, limit) ==
    LET mine == {j \in 1..Len(rows) : rows[j].session = sessionID}
        left == {j \in mine : \A i \in 1..Len(h) : h[i] # rows[j]}
    IN  /\ Len(h) = Min(Cardinality(mine), limit)
        /\ \A i \in 1..Len(h) : \E j \in mine : rows[j] = h[i]
        /\ \A i, j \in 1..Len(h) : i < j =>
              /\ h[i] # h[j]
              /\ h[i].created_at <= h[j].created_at
        /\ \A j \in left : \A i \in 1..Len(h) : rows[j].created_at <= h[i].created_at

\* the call has read its history and not yet written its answer
HoldsHistory(r) ==
    Did(r, "history_ok") /\ At(r, AssistantWrite) = {} /\ ~Returned(r)

\* C16: the history a call passes to GenerateSQL is the at most 10 most
\* recent messages of its session, in ascending created_at order; when a call
\* follows another on the same session and both messages of the first were
\* stored, the history of the second holds the first call's user message and,
\* after it, the first call's assistant message.
C16_HistoryIsTrailingWindow ==
    /\ \A r \in Requests :
          HoldsHistory(r) =>
              TrailingWindow(rq[r].history, messages, rq[r].sessionID, HistoryLimit)
    /\ \A first, second \in Requests :
          (/\ first \in rq[second].after
           /\ rq[first].sessionID = rq[second].sessionID
           /\ Did(first, "user_write_ok") /\ Did(first, "assistant_write_ok")
           /\ Did(second, "history_ok")) =>
              \E i, j \in 1..Len(rq[second].history) :
                  /\ i < j
                  /\ rq[second].history[i].by = first
                  /\ rq[second].history[i].role = "user"
                  /\ rq[second].history[i].content = UserContent(rq[first].question)
                  /\ rq[second].history[j].by = first
                  /\ rq[second].history[j].role = "assistant"

\* the second call is about to call GenerateSQL with a full window that
\* leaves older messages out and holds both messages of the first call
C16_Witness ==
    /\ rq["r2"].pc = "llm"
    /\ "r1" \in rq["r2"].after
    /\ Did("r1", "user_write_ok") /\ Did("r1", "assistant_write_ok")
    /\ Did("r2", "user_write_ok") /\ Did("r2", "history_ok")
    /\ Len(rq["r2"].history) = HistoryLimit
    /\ Len(messages) > HistoryLimit

(***************************************************************************)
(* Claims about the LLM router.                                            *)
(***************************************************************************)
\* the tag a call resolves to
ResolvedName(tag) == IF tag = "" THEN lr.defaultProvider ELSE tag

\* call c is made in this step
Calls(c) == lr.calls[c].pc = "ready" /\ lr'.calls[c].pc = "done"

\* what the specification asks of the call made in this step
ResolvedAsSpecified(c) ==
    LET call == lr'.calls[c]
        name == ResolvedName(call.tag)
    IN  IF call.config # {} /\ name \in lr.factories
        THEN /\ call.err = NoError
             /\ call.provider.fresh
             /\ call.provider.name = name
             /\ Field(call.config, "api_key") # "" =>
                   call.provider.credential = Field(call.config, "api_key")
        ELSE IF name \in DOMAIN lr.providers /\ IsConfigured(lr.providers[name])
        THEN call.err = NoError /\ call.provider = lr.providers[name]
        ELSE call.err # NoError /\ call.provider = NoProvider

\* C19: GetProviderWithConfig(tag, override) replaces an empty tag by the
\* process default; with a non-empty override and a factory registered for the
\* tag it returns a fresh instance the factory built from the override;
\* otherwise it returns the registered singleton, and fails when there is none
\* or when the singleton's IsConfigured is false.
C19_ResolutionOrder ==
    [][\A c \in LLMCalls : Calls(c) => ResolvedAsSpecified(c)]_vars

\* one call has returned a fresh instance built from B's override; another,
\* made with an empty tag, has failed on the unconfigured singleton of the
\* default provider
C19_Witness ==
    \E c, d \in LLMCalls :
        /\ lr # <<>>
        /\ lr.calls[c].pc = "done" /\ lr.calls[c].provider.fresh
        /\ lr.calls[c].provider.credential = "key-of-B"
        /\ lr.calls[d].pc = "done" /\ lr.calls[d].tag = ""
        /\ lr.calls[d].err = ErrProviderNotConfigured(lr.defaultProvider)

\* the system has no usable credentials for the provider: no singleton is
\* registered for it, or the registered one is not configured
LacksSystemCredentials(name) ==
    name \notin DOMAIN lr.providers \/ ~IsConfigured(lr.providers[name])

\* C20: per-user overrides do not interfere.  For a provider the system has
\* no credentials for, the call of a user without an override fails with
\* "not configured" and the call of a user with an override succeeds; no call
\* changes the registries, so what a user gets does not depend on the calls
\* of the others.
C20_OverridesDoNotInterfere ==
    [][\A c \in LLMCalls :
          Calls(c) =>
              LET call == lr'.calls[c]
                  name == ResolvedName(call.tag)
              IN  /\ (name \in FactoryTags /\ LacksSystemCredentials(name)) =>
                        IF call.config = {}
                        THEN call.err = ErrProviderNotConfigured(name)
                        ELSE call.err = NoError
                  /\ lr'.providers = lr.providers
                  /\ lr'.factories = lr.factories
                  /\ lr'.defaultProvider = lr.defaultProvider]_vars
(***************************************************************************)
(* Claims about ExtractSQL.                                                *)
(***************************************************************************)
\* the call has returned
Extracted == xc.pc = "done"

\* the steps agree with the operator the pipeline uses
StepsAgreeWithExtractSQL ==
    Extracted => xc.sql = ExtractSQL(xc.reply)

\* C22: for any text X that contains no code fence, ExtractSQL applied to X
\* wrapped in a fenced block tagged sql returns exactly X.
C22_FencedBlockRoundTrip ==
    (Extracted /\ xc.fenced /\ indexOf(xc.body, fence) = 0) => xc.sql = xc.body

\* the reply begins with SELECT
BeginsWithSelect == HasPrefix(xc.reply, kwSELECT)

\* the statement of C23 as the specification words it
C23_SelectPreservedVerbatim ==
    (Extracted /\ BeginsWithSelect) => xc.sql = TrimSuffix(xc.reply, <<";">>)

blankLine == <<"\n", "\n">>

\* the text before the first blank line
BeforeBlankLine(s) ==
    IF indexOf(s, blankLine) = 0 THEN s
    ELSE SubSeq(s, 1, indexOf(s, blankLine) - 1)

\* the reply holds no opening thinking tag and no code fence
PlainReply ==
    /\ indexOf(xc.reply, tagThinkOpen) = 0
    /\ indexOf(xc.reply, fence) = 0

\* C23: if the raw model reply begins with SELECT and holds no opening
\* thinking tag and no code fence, ExtractSQL returns the part of the reply
\* before its first blank line, without the white space around it and
\* without one trailing semicolon.
C23_SelectPreservedUpToBlankLine ==
    (Extracted /\ BeginsWithSelect /\ PlainReply) =>
        xc.sql = trimSQL(BeforeBlankLine(xc.reply))

\* a reply beginning with SELECT was cut at a blank line
C23_Witness ==
    /\ Extracted
    /\ BeginsWithSelect
    /\ PlainReply
    /\ indexOf(xc.reply, blankLine) # 0
    /\ xc.sql # <<>>
    /\ Len(xc.sql) + 2 < Len(xc.reply)
    /\ xc.sql = SubSeq(xc.reply, 1, Len(xc.sql))

\* C24: stripping the thinking sections is idempotent (strip(strip(x)) =
\* strip(x)) and commutes with extraction (ExtractSQL(strip(x)) =
\* strip(ExtractSQL(x)) = ExtractSQL(x)) for every input x.
C24_StripIdempotentAndCommutes ==
    LET x         == xc.reply
        stripped  == removeThinkingTags(x)
        extracted == ExtractSQL(x)
    IN  /\ stripped # StillLooping
        /\ removeThinkingTags(stripped) = stripped
        /\ ExtractSQL(stripped) = extracted
        /\ removeThinkingTags(extracted) = extracted

\* the same equations on the replies for which removeThinkingTags returns
StripEquationsWhereDefined ==
    LET x         == xc.reply
        stripped  == removeThinkingTags(x)
        extracted == ExtractSQL(x)
    IN  stripped # StillLooping =>
            /\ removeThinkingTags(stripped) = stripped
            /\ ExtractSQL(stripped) = extracted
            /\ removeThinkingTags(extracted) = extracted

\* removeThinkingTags is still in its loop after MaxThinkIters iterations only
\* when the first closing tag stands before the first opening tag, where an
\* iteration removes nothing
LoopingMeansNoProgress ==
    (xc.pc = "loop" /\ xc.iters = MaxThinkIters
        /\ indexOf(xc.content, tagThinkOpen) # 0
        /\ indexOf(xc.content, tagThinkClose) # 0) =>
            /\ indexOf(xc.content, tagThinkClose) < indexOf(xc.content, tagThinkOpen)
            /\ Len(removeThinkBlock(xc.content, indexOf(xc.content, tagThinkOpen),
                                    indexOf(xc.content, tagThinkClose)))
                   >= Len(xc.content)

\* an iteration of the loop of removeThinkingTags
LoopIterates == xc.pc = "loop" /\ xc'.pc = "loop" /\ xc'.iters = xc.iters + 1

\* C30: ExtractSQL terminates for every input string: the loop of
\* removeThinkingTags strictly shortens the content on each iteration, also
\* when a closing tag occurs before the first opening tag.
C30_LoopShortensContent ==
    [][LoopIterates => Len(xc'.content) < Len(xc.content)]_vars

(***************************************************************************)
(* Claims about Adapter.Close.                                             *)
(***************************************************************************)
\* a call of Close on an adapter that is already closed
ClosesAgain == ac.closed /\ ac'.closes = ac.closes + 1

\* C25: Adapter.Close is idempotent for every dialect: a second Close on an
\* already closed adapter releases nothing further and returns no error, and
\* leaves the adapter in the same closed state.
C25_CloseIsIdempotent ==
    [][ClosesAgain => /\ ac'.err = NoError
                      /\ ac'.released = ac.released
                      /\ ac'.handle = ac.handle
                      /\ ac'.driver = ac.driver]_vars

\* the same for the adapters that drop their handle
CloseIsIdempotentButMongo ==
    [][(ClosesAgain /\ ac.kind # "mongodb") =>
           /\ ac'.err = NoError
           /\ ac'.released = ac.released
           /\ ac'.handle = ac.handle
           /\ ac'.driver = ac.driver]_vars

=============================================================================
